---------------------------- MODULE Spec2Model ----------------------------
(***************************************************************************)
(* A model of pygomoku's Board (src/src/pygomoku/Board.py): the position   *)
(* state, play/undo, the coordinate conversions and the last-move-centred  *)
(* win check; and of the two tree-search engines MCTS and MCTSWithDNN      *)
(* (src/src/pygomoku/mcts/MCTS.py) with their search tree.                 *)
(*                                                                         *)
(* Representation.  A Board object is a record with the object's fields.   *)
(* A Python value that may be None is a sequence of length <= 1: None is   *)
(* <<>> and the integer m is <<m>>.  A Python list is a sequence, the      *)
(* dict `states` is a function whose DOMAIN is the dict's key set.         *)
(***************************************************************************)
EXTENDS Integers, Sequences, FiniteSets, TLC

\* ------------------------------------------------------------------ bounds
\* Boards of the general specification have at most MaxCells cells.
MaxCells == 4
\* The board of the game specification (legal alternating plays only).
GameWidth == 3
GameHeight == 3
GameToWin == 3
\* Boards of the coordinate specification have at most MaxSide rows and columns.
MaxSide == 4
\* Longest play.../undo... round trip tried from every reachable board.
MaxRoundTrip == 2

\* --------------------------------------------------------- class constants
kPlayerWhite == 0
kPlayerBlack == 1
kEmpty == 0 - 1

None == << >>
Some(x) == << x >>

Range(s) == { s[i] : i \in 1..Len(s) }
Min(a, b) == IF a < b THEN a ELSE b

\* board, op, arg, ret, raised: a Board object and the last call made on it or
\* on the search engine.  mcts: the search engine (None while none has been
\* constructed).  search: the getMove/think call in progress.  hist: what the
\* playouts did so far (a history kept for the properties only).  thePlayer: the
\* Player object that owns the engine (None while the engine stands alone).
VARIABLES board, op, arg, ret, raised, mcts, search, hist, thePlayer
vars == << board, op, arg, ret, raised, mcts, search, hist, thePlayer >>

\* ------------------------------------------------------------ Board fields
\* list(range(width * height))
rangeList(n) == [ i \in 1..n |-> i - 1 ]

\* list.remove(x): drops the first occurrence (the caller checks membership).
listRemove(s, x) ==
    LET i == CHOOSE j \in 1..Len(s) : s[j] = x /\ \A k \in 1..(j - 1) : s[k] # x
    IN  SubSeq(s, 1, i - 1) \o SubSeq(s, i + 1, Len(s))

\* dict.get(key, default)
dictGet(d, k, default) == IF k \in DOMAIN d THEN d[k] ELSE default

\* d[k] = v
dictSet(d, k, v) == [ x \in (DOMAIN d) \cup {k} |-> IF x = k THEN v ELSE d[x] ]

\* del d[k]
dictDel(d, k) == [ x \in (DOMAIN d) \ {k} |-> d[x] ]

emptyDict == [ x \in {} |-> kEmpty ]

\* (variant: White, being 0, is taken for an omitted start_player)
initBoard_whiteAsOmitted(b, start_player) ==
    LET sp == IF start_player = None \/ start_player = Some(0)
              THEN kPlayerBlack ELSE start_player[1]
    IN  IF b.width < b.numberToWin \/ b.height < b.numberToWin
        THEN [ board |-> b, ret |-> None, raised |-> "Exception" ]
        ELSE [ board |-> [ b EXCEPT !.current_player = sp,
                                    !.availables = rangeList(b.width * b.height),
                                    !.moved = << >>,
                                    !.states = emptyDict,
                                    !.last_move = None ],
               ret |-> None, raised |-> "" ]

\* Board.initBoard(start_player): the result and the exception it raises.
initBoard(b, start_player) ==
    LET sp == IF start_player = None THEN kPlayerBlack ELSE start_player[1]
    IN  IF b.width < b.numberToWin \/ b.height < b.numberToWin
        THEN [ board |-> b, ret |-> None, raised |-> "Exception" ]
        ELSE [ board |-> [ b EXCEPT !.current_player = sp,
                                    !.availables = rangeList(b.width * b.height),
                                    !.moved = << >>,
                                    !.states = emptyDict,
                                    !.last_move = None ],
               ret |-> None, raised |-> "" ]

\* Board.__init__(width=w, height=h, numberToWin=n)
newBoard(w, h, n) ==
    initBoard([ width |-> w, height |-> h, numberToWin |-> n,
                current_player |-> kPlayerBlack, availables |-> << >>,
                moved |-> << >>, states |-> emptyDict, last_move |-> None ],
              None).board

\* Mutant of changePlayer: the turn is never handed over.
changePlayer_stuck(b) == b

\* Board.__changePlayer
changePlayer(b) == [ b EXCEPT !.current_player = 1 - b.current_player ]

\* Mutant of playStone: the played move stays in availables.
playStone_keepsAvailable(b, move) ==
    LET b1 == [ b EXCEPT !.states = dictSet(b.states, move, b.current_player) ]
    IN  IF move \notin Range(b1.availables)
        THEN [ board |-> b1, ret |-> None, raised |-> "ValueError" ]
        ELSE LET b2 == [ b1 EXCEPT !.moved = Append(b1.moved, move) ]
                 b3 == changePlayer(b2)
             IN  [ board |-> [ b3 EXCEPT !.last_move = Some(move) ],
                   ret |-> TRUE, raised |-> "" ]

\* Board.play(move) past the occupied check: the five assignments.  An index
\* that is not in availables (one outside the board) has been written to
\* states when list.remove raises ValueError.
playStone(b, move) ==
    LET b1 == [ b EXCEPT !.states = dictSet(b.states, move, b.current_player) ]
    IN  IF move \notin Range(b1.availables)
        THEN [ board |-> b1, ret |-> None, raised |-> "ValueError" ]
        ELSE LET b2 == [ b1 EXCEPT !.availables = listRemove(b1.availables, move),
                                   !.moved = Append(b1.moved, move) ]
                 b3 == changePlayer(b2)
             IN  [ board |-> [ b3 EXCEPT !.last_move = Some(move) ],
                   ret |-> TRUE, raised |-> "" ]

\* Mutant of play: the occupied check is missing.
play_noOccupiedCheck(b, move) == playStone(b, move)

\* Board.play(move)
play(b, move) ==
    IF move \in Range(b.moved)
    THEN [ board |-> b, ret |-> FALSE, raised |-> "" ]
    ELSE playStone(b, move)

\* Mutant of undoMove: the undone move is not given back to availables.
undoMove_keepsTaken(b) ==
    LET b1 == [ b EXCEPT !.states = dictDel(b.states, b.last_move[1]),
                         !.moved = SubSeq(b.moved, 1, Len(b.moved) - 1) ]
        b2 == changePlayer(b1)
    IN  [ board |-> [ b2 EXCEPT !.last_move =
                          IF b2.moved # << >>
                          THEN Some(b2.moved[Len(b2.moved)])
                          ELSE None ],
          ret |-> TRUE, raised |-> "" ]

\* Board.undo() past the empty-history check.
undoMove(b) ==
    LET b1 == [ b EXCEPT !.states = dictDel(b.states, b.last_move[1]),
                         !.availables = Append(b.availables, b.last_move[1]),
                         !.moved = SubSeq(b.moved, 1, Len(b.moved) - 1) ]
        b2 == changePlayer(b1)
    IN  [ board |-> [ b2 EXCEPT !.last_move =
                          IF b2.moved # << >>
                          THEN Some(b2.moved[Len(b2.moved)])
                          ELSE None ],
          ret |-> TRUE, raised |-> "" ]

\* Mutant of undo: the player is changed before the history is tested.
undo_changesPlayerFirst(b) ==
    IF b.moved = << >>
    THEN [ board |-> changePlayer(b), ret |-> FALSE, raised |-> "" ]
    ELSE undoMove(b)

\* Board.undo()
undo(b) ==
    IF b.moved = << >>
    THEN [ board |-> b, ret |-> FALSE, raised |-> "" ]
    ELSE undoMove(b)

\* Board.moveToLocation(move): [h_index, w_index], or None
moveToLocation(b, move) ==
    IF move = None
    THEN None
    ELSE IF move[1] < 0 \/ move[1] >= b.width * b.height
         THEN None
         ELSE << move[1] \div b.width, move[1] % b.width >>

\* Mutant of locationToMove: the row is scaled by the height.
locationToMove_byHeight(b, location) ==
    IF location = None
    THEN None
    ELSE IF Len(location) # 2
         THEN None
         ELSE LET move == location[1] * b.height + location[2]
              IN  IF move < 0 \/ move >= b.width * b.height
                  THEN None
                  ELSE Some(move)

\* Board.locationToMove(location): the move index, or None
locationToMove(b, location) ==
    IF location = None
    THEN None
    ELSE IF Len(location) # 2
         THEN None
         ELSE LET move == location[1] * b.width + location[2]
              IN  IF move < 0 \/ move >= b.width * b.height
                  THEN None
                  ELSE Some(move)

\* ---------------------------------------------------------------- win check
\* The residues bd % width at which a scan stops: column 0 for the horizontal
\* and main-diagonal scans, column width-1 for the deputy diagonal, none for
\* the vertical scan.
RECURSIVE expandLeft(_, _, _, _, _)
\* Iterations of `while states.get(left_bd - step) == player and
\* left_bd % width not in edge: left_bd -= step`.
expandLeft(b, player, left_bd, step, edge) ==
    IF /\ dictGet(b.states, left_bd - step, kEmpty) = player
       /\ (left_bd % b.width) \notin edge
    THEN 1 + expandLeft(b, player, left_bd - step, step, edge)
    ELSE 0

RECURSIVE expandRight_noEdge(_, _, _, _, _)
\* (variant: the right end of a run is not stopped at a board edge)
expandRight_noEdge(b, player, right_bd, step, edge) ==
    IF dictGet(b.states, right_bd, kEmpty) = player
    THEN 1 + expandRight_noEdge(b, player, right_bd + step, step, edge)
    ELSE 0

RECURSIVE expandRight(_, _, _, _, _)
\* Iterations of `while states.get(right_bd) == player and
\* right_bd % width not in edge: right_bd += step`.
expandRight(b, player, right_bd, step, edge) ==
    IF /\ dictGet(b.states, right_bd, kEmpty) = player
       /\ (right_bd % b.width) \notin edge
    THEN 1 + expandRight(b, player, right_bd + step, step, edge)
    ELSE 0

\* The length the scan of one direction reports: right_bd - left_bd for the
\* horizontal interval, count for the other three.
runLength(b, centre, player, step, edge) ==
    1 + expandLeft(b, player, centre, step, edge)
      + expandRight(b, player, centre + step, step, edge)

\* One pass of the four scans around `centre` for the stones of `player`.
scanFrom(b, centre, player) ==
    \/ runLength(b, centre, player, 1, {0}) >= b.numberToWin
    \/ runLength(b, centre, player, b.width, {}) >= b.numberToWin
    \/ runLength(b, centre, player, b.width + 1, {0}) >= b.numberToWin
    \/ runLength(b, centre, player, b.width - 1, {b.width - 1}) >= b.numberToWin

\* self.moved[::-1][:2]
lastTwo(moved) ==
    [ i \in 1..Min(2, Len(moved)) |-> moved[Len(moved) + 1 - i] ]

RECURSIVE firstWinner(_, _, _)
\* `for m in candidates`: the colour of the first candidate whose pass finds a
\* run.  Every pass is centred on self.__last_move, whichever candidate m
\* supplies the colour.
firstWinner(b, candidates, i) ==
    IF i > Len(candidates)
    THEN None
    ELSE LET last_player == b.states[candidates[i]]
         IN  IF scanFrom(b, b.last_move[1], last_player)
             THEN Some(last_player)
             ELSE firstWinner(b, candidates, i + 1)

\* Mutant of fastGetWinner: the early return is one stone too late.
fastGetWinner_lateGuard(b) ==
    IF Len(b.moved) < 2 * b.numberToWin
    THEN None
    ELSE firstWinner(b, lastTwo(b.moved), 1)

\* (variant: no early return by the number of stones)
fastGetWinner_noGuard(b) == firstWinner(b, lastTwo(b.moved), 1)

\* Board.fastGetWinner()
fastGetWinner(b) ==
    IF Len(b.moved) < 2 * b.numberToWin - 1
    THEN None
    ELSE firstWinner(b, lastTwo(b.moved), 1)

\* Board.gameEnd(): << ended, winner >>
gameEnd(b) ==
    LET winner == fastGetWinner(b)
    IN  IF winner # None
        THEN << TRUE, winner >>
        ELSE IF b.availables = << >>
             THEN << TRUE, None >>
             ELSE << FALSE, None >>

\* (variant: the row and the column of a move are taken by the height)
currentState_byHeight(b) ==
    LET mark(keys) == [ r \in 0..(b.height - 1) |-> [ c \in 0..(b.width - 1) |->
                          IF \E m \in keys : m \div b.height = r /\ m % b.height = c
                          THEN 1 ELSE 0 ] ]
        curr_moves == { m \in DOMAIN b.states : b.states[m] = b.current_player }
        oppo_moves == { m \in DOMAIN b.states : b.states[m] # b.current_player }
        filled == DOMAIN b.states # {}
    IN  [ plane \in 0..3 |->
            CASE plane = 0 -> mark(IF filled THEN curr_moves ELSE {})
              [] plane = 1 -> mark(IF filled THEN oppo_moves ELSE {})
              [] plane = 2 -> mark(IF filled THEN Range(b.last_move) ELSE {})
              [] plane = 3 -> [ r \in 0..(b.height - 1) |-> [ c \in 0..(b.width - 1) |->
                                  IF b.current_player = kPlayerBlack THEN 1 ELSE 0 ] ] ]

\* Board.currentState(): planes 0..3, each indexed [row][column].
currentState(b) ==
    LET mark(keys) == [ r \in 0..(b.height - 1) |-> [ c \in 0..(b.width - 1) |->
                          IF \E m \in keys : m \div b.width = r /\ m % b.width = c
                          THEN 1 ELSE 0 ] ]
        curr_moves == { m \in DOMAIN b.states : b.states[m] = b.current_player }
        oppo_moves == { m \in DOMAIN b.states : b.states[m] # b.current_player }
        filled == DOMAIN b.states # {}
    IN  [ plane \in 0..3 |->
            CASE plane = 0 -> mark(IF filled THEN curr_moves ELSE {})
              [] plane = 1 -> mark(IF filled THEN oppo_moves ELSE {})
              [] plane = 2 -> mark(IF filled THEN Range(b.last_move) ELSE {})
              [] plane = 3 -> [ r \in 0..(b.height - 1) |-> [ c \in 0..(b.width - 1) |->
                                  IF b.current_player = kPlayerBlack THEN 1 ELSE 0 ] ] ]

\* ------------------------------------------------------------ specification
\* The constructor's arguments: every board of at most MaxCells cells on
\* which initBoard does not raise.
Configs ==
    { c \in (1..MaxCells) \X (1..MaxCells) \X (1..MaxCells) :
        /\ c[1] * c[2] <= MaxCells
        /\ c[3] <= Min(c[1], c[2]) }

Init ==
    /\ \E c \in Configs : board = newBoard(c[1], c[2], c[3])
    /\ op = "init"
    /\ arg = << >>
    /\ ret = None
    /\ raised = ""
    /\ mcts = None
    /\ search = None
    /\ hist = None
    /\ thePlayer = None

\* One call of a Board method: its name, its argument, what it returned or
\* raised, and the board it leaves.
Call(name, a, r) ==
    /\ board' = r.board
    /\ op' = name
    /\ arg' = a
    /\ ret' = r.ret
    /\ raised' = r.raised
    /\ UNCHANGED << mcts, search, hist, thePlayer >>

Cells(b) == 0..(b.width * b.height - 1)

\* play(m) for a move index of the board, occupied or not
Play == \E m \in Cells(board) : Call("play", Some(m), play(board, m))

Undo == Call("undo", << >>, undo(board))

InitBoard ==
    \E sp \in { None, Some(kPlayerWhite), Some(kPlayerBlack) } :
        Call("initBoard", sp, initBoard(board, sp))

\* A query: it returns a value and assigns no field.
Query(name, a, value) == Call(name, a, [ board |-> board, ret |-> value, raised |-> "" ])

GameEnd == Query("gameEnd", << >>, gameEnd(board))

CurrentState == Query("currentState", << >>, currentState(board))

\* Move arguments: None, every index of the board and one index past each end.
MoveArgs(b) == { None } \cup { Some(m) : m \in (0 - 1)..(b.width * b.height) }

\* Location arguments: None, lists of the wrong length, and every [row, col]
\* with the row and the column on the board or one past each edge.
LocationArgs(b) ==
    { None, << 0 >>, << 0, 0, 0 >> }
        \cup { << r, c >> : r \in (0 - 1)..b.height, c \in (0 - 1)..b.width }

MoveToLocation ==
    \E m \in MoveArgs(board) : Query("moveToLocation", m, moveToLocation(board, m))

LocationToMove ==
    \E l \in LocationArgs(board) : Query("locationToMove", l, locationToMove(board, l))

Next ==
    \/ Play
    \/ Undo
    \/ InitBoard
    \/ GameEnd
    \/ CurrentState
    \/ MoveToLocation
    \/ LocationToMove

Spec == Init /\ [][Next]_vars

\* ---- play with any integer argument: the indices of the board and one index
\* past each end.
PlayAny ==
    \E m \in (0 - 1)..(board.width * board.height) :
        Call("play", Some(m), play(board, m))

NextAny == PlayAny \/ Undo \/ InitBoard \/ GameEnd

SpecAny == Init /\ [][NextAny]_vars

\* ---- the coordinate conversions alone, on every board of at most MaxSide
\* rows and MaxSide columns.
InitCoord ==
    /\ \E w \in 1..MaxSide, h \in 1..MaxSide :
           \E n \in 1..Min(w, h) : board = newBoard(w, h, n)
    /\ op = "init"
    /\ arg = << >>
    /\ ret = None
    /\ raised = ""
    /\ mcts = None
    /\ search = None
    /\ hist = None
    /\ thePlayer = None

NextCoord == MoveToLocation \/ LocationToMove

SpecCoord == InitCoord /\ [][NextCoord]_vars

\* ---- a game: legal plays only, the two colours alternating, on the
\* GameWidth x GameHeight board with GameToWin stones to win.
InitGame ==
    /\ board = newBoard(GameWidth, GameHeight, GameToWin)
    /\ op = "init"
    /\ arg = << >>
    /\ ret = None
    /\ raised = ""
    /\ mcts = None
    /\ search = None
    /\ hist = None
    /\ thePlayer = None

PlayLegal ==
    \E m \in Range(board.availables) : Call("play", Some(m), play(board, m))

NextGame == PlayLegal

SpecGame == InitGame /\ [][NextGame]_vars

\* ============================================================== properties
\* The stone on the cell [row, col]; kEmpty off the board and on empty cells.
Stone(b, row, col) ==
    IF row \in 0..(b.height - 1) /\ col \in 0..(b.width - 1)
    THEN dictGet(b.states, row * b.width + col, kEmpty)
    ELSE kEmpty

\* Row, column, main diagonal, anti-diagonal.
Directions == { << 0, 1 >>, << 1, 0 >>, << 1, 1 >>, << 1, 0 - 1 >> }

\* numberToWin stones of `player` from [row, col] in direction d, all on the board.
LineAt(b, player, row, col, d) ==
    \A i \in 0..(b.numberToWin - 1) : Stone(b, row + i * d[1], col + i * d[2]) = player

HasLine(b, player) ==
    \E row \in 0..(b.height - 1), col \in 0..(b.width - 1), d \in Directions :
        LineAt(b, player, row, col, d)

\* A line of `player` that contains the cell of index `move`.
LineThrough(b, player, move) ==
    \E row \in 0..(b.height - 1), col \in 0..(b.width - 1), d \in Directions :
        /\ LineAt(b, player, row, col, d)
        /\ \E i \in 0..(b.numberToWin - 1) :
               (row + i * d[1]) * b.width + (col + i * d[2]) = move

Players == { kPlayerWhite, kPlayerBlack }

\* C1 (win soundness, as claimed): gameEnd() names a winner only if that
\* player has numberToWin contiguous stones in a line, and a position with no
\* line and an empty cell left is reported as not ended.
C1_WinSoundness ==
    LET end == gameEnd(board)
    IN  /\ (end[1] /\ end[2] # None) => HasLine(board, end[2][1])
        /\ ((\A p \in Players : ~HasLine(board, p)) /\ board.availables # << >>)
               => end = << FALSE, None >>

\* C2 (win completeness): when gameEnd() reported not-ended before a legal
\* play and the play gives its mover a line through the played cell, gameEnd()
\* after the play is (True, mover).
C2_WinCompleteness ==
    [][ ( /\ op' = "play"
          /\ raised' = ""
          /\ ret' = TRUE
          /\ gameEnd(board) = << FALSE, None >>
          /\ LineThrough(board', board.current_player, arg'[1]) )
        => gameEnd(board') = << TRUE, Some(board.current_player) >> ]_vars

\* C2 witness: a play from a position that had not ended completed a line
\* through its cell, and gameEnd() names the mover.
C2_Witness ==
    /\ op = "play"
    /\ board.moved # << >>
    /\ LET before == undoMove(board).board
       IN  /\ gameEnd(before) = << FALSE, None >>
           /\ LineThrough(board, before.current_player, arg[1])
           /\ gameEnd(board) = << TRUE, Some(before.current_player) >>

\* C3 (draw detection, as claimed): on a full board on which neither player
\* has a line, gameEnd() is (True, None).
C3_DrawDetection ==
    ( /\ Len(board.moved) = board.width * board.height
      /\ board.availables = << >>
      /\ \A p \in Players : ~HasLine(board, p) )
    => gameEnd(board) = << TRUE, None >>

\* Sequences of at most k distinct cells taken from `free`.
DistinctSeqs(free, k) ==
    { s \in UNION { [ 1..n -> free ] : n \in 0..k } :
        \A i, j \in 1..Len(s) : i # j => s[i] # s[j] }

RECURSIVE playAll(_, _)
playAll(b, moves) ==
    IF moves = << >> THEN b ELSE playAll(play(b, Head(moves)).board, Tail(moves))

RECURSIVE undoTimes(_, _)
undoTimes(b, n) == IF n = 0 THEN b ELSE undoTimes(undo(b).board, n - 1)

\* The fields the play/undo round trip restores; availables as a set.
SameBoard(a, b) ==
    /\ a.states = b.states
    /\ Range(a.availables) = Range(b.availables)
    /\ a.moved = b.moved
    /\ a.current_player = b.current_player
    /\ a.last_move = b.last_move

\* C4 (play/undo inverse): from every reachable board, n successful plays
\* followed by n undos give back the board: same states, same set of
\* availables, same moved, same current_player, same last_move.
C4_PlayUndoInverse ==
    \A moves \in DistinctSeqs(Cells(board) \ Range(board.moved), MaxRoundTrip) :
        SameBoard(undoTimes(playAll(board, moves), Len(moves)), board)

\* C4 witness: a successful undo has left a board that still holds a stone,
\* from which a further round trip of two plays and two undos starts.
C4_Witness ==
    /\ op = "undo"
    /\ ret = TRUE
    /\ board.moved # << >>
    /\ Cardinality(Cells(board) \ Range(board.moved)) >= 2

\* C5 (bookkeeping): after any plays of board indices and undos,
\* len(moved) = len(states) = width*height - len(availables), the keys of states
\* are the elements of moved, availables is the duplicate-free complement of
\* those keys, and last_move is the tail of moved (None when moved is empty).
C5_Bookkeeping ==
    /\ Len(board.moved) = Cardinality(DOMAIN board.states)
    /\ Len(board.moved) = board.width * board.height - Len(board.availables)
    /\ DOMAIN board.states = Range(board.moved)
    /\ Range(board.availables) = Cells(board) \ DOMAIN board.states
    /\ Cardinality(Range(board.availables)) = Len(board.availables)
    /\ board.last_move = IF board.moved = << >>
                         THEN None
                         ELSE Some(board.moved[Len(board.moved)])

\* C5 witness: an undo has put a move back behind a larger one in availables
\* while stones remain on the board.
C5_Witness ==
    /\ op = "undo"
    /\ ret = TRUE
    /\ board.moved # << >>
    /\ \E i \in 1..(Len(board.availables) - 1) :
           board.availables[i] > board.availables[i + 1]

OffBoard(b, move) == move < 0 \/ move >= b.width * b.height

\* C6 (out-of-range play, as claimed): play(m) with m off the board reports
\* failure and leaves the board as it was.
C6_OutOfRangeRejected ==
    [][ (op' = "play" /\ OffBoard(board, arg'[1]))
        => ((raised' # "" \/ ret' = FALSE) /\ board' = board) ]_vars

\* C7 (occupied play): play(m) with m in moved returns False and leaves the
\* board as it was.
C7_OccupiedPlayNoOp ==
    [][ (op' = "play" /\ arg'[1] \in Range(board.moved))
        => (raised' = "" /\ ret' = FALSE /\ board' = board) ]_vars

\* C7 witness: a play on an occupied cell has returned False.
C7_Witness ==
    /\ op = "play"
    /\ raised = ""
    /\ ret = FALSE
    /\ arg[1] \in Range(board.moved)

\* C8 (turn alternation): a play or an undo that returns True hands the turn
\* to the other player; a failed play, a failed undo, gameEnd, currentState and
\* the coordinate conversions leave current_player alone.
C8_TurnAlternation ==
    [][ /\ (op' \in { "play", "undo" } /\ raised' = "" /\ ret' = TRUE)
            => board'.current_player = 1 - board.current_player
        /\ (op' \in { "play", "undo" } /\ raised' = "" /\ ret' = FALSE)
            => board'.current_player = board.current_player
        /\ (op' \in { "gameEnd", "currentState", "moveToLocation", "locationToMove" })
            => board'.current_player = board.current_player ]_vars

\* C8 witness: after a play and an undo that both succeeded it is White's
\* turn on a board that Black started: a third stone is on its way.
C8_Witness ==
    /\ op = "undo"
    /\ ret = TRUE
    /\ Len(board.moved) = 1
    /\ board.current_player = 1 - board.states[board.moved[1]]

\* C9 (undo on an empty history): returns False and changes nothing.
C9_UndoEmpty ==
    [][ (op' = "undo" /\ board.moved = << >>)
        => (raised' = "" /\ ret' = FALSE /\ board' = board) ]_vars

\* C9 witness: an undo on an empty history has returned False.
C9_Witness ==
    /\ op = "undo"
    /\ raised = ""
    /\ ret = FALSE
    /\ board.moved = << >>

\* C10 (coordinate bijection): moveToLocation(m) = [m // width, m % width] and
\* locationToMove(moveToLocation(m)) = m for every move of the board, and
\* moveToLocation(locationToMove([r, c])) = [r, c] for every cell.
C10_CoordinateBijection ==
    /\ \A m \in Cells(board) :
           /\ moveToLocation(board, Some(m)) = << m \div board.width, m % board.width >>
           /\ locationToMove(board, moveToLocation(board, Some(m))) = Some(m)
    /\ \A r \in 0..(board.height - 1), c \in 0..(board.width - 1) :
           moveToLocation(board, locationToMove(board, << r, c >>)) = << r, c >>

\* C10 witness: locationToMove has converted a cell off the first row and
\* the first column of a board that is not square.
C10_Witness ==
    /\ op = "locationToMove"
    /\ board.width # board.height
    /\ Len(arg) = 2
    /\ arg[1] \in 1..(board.height - 1)
    /\ arg[2] \in 1..(board.width - 1)
    /\ ret = Some(arg[1] * board.width + arg[2])

\* C11 (out-of-range coordinates, as claimed): locationToMove returns None for
\* every [r, c] whose row is outside [0, height) or whose column is outside
\* [0, width), and moveToLocation returns None for every index off the board.
C11_OutOfRangeIsNone ==
    /\ ( /\ op = "locationToMove"
         /\ Len(arg) = 2
         /\ (arg[1] \notin 0..(board.height - 1) \/ arg[2] \notin 0..(board.width - 1)) )
       => ret = None
    /\ (op = "moveToLocation" /\ arg # None /\ OffBoard(board, arg[1]))
       => ret = None

\* ------------------------------------------------- numbers of the search tree
\* A node's _Q and _P and the values backed up are exact fractions
\* << numerator, denominator >> in lowest terms with a positive denominator
\* (the code holds them as floats; rounding is not modelled).
RECURSIVE gcd(_, _)
gcd(a, b) == IF b = 0 THEN a ELSE gcd(b, a % b)

abs(x) == IF x < 0 THEN 0 - x ELSE x

frac(n, d) == LET g == gcd(abs(n), d) IN << n \div g, d \div g >>

fracNeg(x) == << 0 - x[1], x[2] >>
fracAdd(x, y) == frac(x[1] * y[2] + y[1] * x[2], x[2] * y[2])
fracSub(x, y) == fracAdd(x, fracNeg(y))
fracMul(x, y) == frac(x[1] * y[1], x[2] * y[2])
fracDivInt(x, n) == frac(x[1], x[2] * n)
fracLess(x, y) == x[1] * y[2] < y[1] * x[2]
fracInt(n) == << n, 1 >>

\* A score q + u * sqrt(n) is the triple << q, u, n >> (q, u fractions, n a
\* natural).  surdLess(x, y): x < y for two scores with the same n, decided
\* without computing the root: with a = y.q - x.q and b = x.u - y.u it is
\* a > b * sqrt(n).
surdLess(x, y) ==
    LET a == fracSub(y[1], x[1])
        b == fracSub(x[2], y[2])
        n == x[3]
        a2 == fracMul(a, a)
        b2n == fracMul(fracMul(b, b), fracInt(n))
    IN  IF b[1] = 0 \/ n = 0 THEN a[1] > 0
        ELSE IF b[1] > 0 THEN a[1] > 0 /\ fracLess(b2n, a2)
        ELSE a[1] >= 0 \/ fracLess(a2, b2n)

\* Python's max(items, key=...): the index of the first item no other item
\* beats (a later item replaces the running maximum only if strictly greater).
\* less[i][j] tells whether item i is less than item j.
firstMax(n, less) ==
    CHOOSE i \in 1..n :
        /\ \A j \in 1..(i - 1) : less[j][i]
        /\ \A j \in (i + 1)..n : ~ less[i][j]

\* ------------------------------------------------------------- MCTSTreeNode
\* The tree is a function from node identities to nodes.  A node's identity
\* is the sequence of actions from the root it was created under (a fresh
\* root is << >>); `parent` is None or Some(identity); `children` is the dict
\* as the sequence of its (action, child identity) items in insertion order.
MCTSTreeNode(parent, prior_prob) ==
    [ parent |-> parent, children |-> << >>, vis_times |-> 0,
      Q_value |-> fracInt(0), P |-> prior_prob ]

childKeys(node) == { node.children[i][1] : i \in 1..Len(node.children) }

\* self.children[action], for a key of the dict
childAt(node, action) ==
    node.children[CHOOSE i \in 1..Len(node.children) : node.children[i][1] = action][2]

is_leaf(node) == node.children = << >>

is_root(node) == node.parent = None

RECURSIVE expand_overwrite(_, _, _)
\* (variant: every listed action gets a new node, also one that is a child
\* already, whose node and subtree are thereby dropped)
expand_overwrite(nodes, id, action_priors) ==
    IF action_priors = << >> THEN nodes
    ELSE LET action == Head(action_priors)[1]
             prob == Head(action_priors)[2]
             child == Append(id, action)
             added ==
                 [ x \in (DOMAIN nodes) \cup { child } |->
                     IF x = child THEN MCTSTreeNode(Some(id), prob)
                     ELSE IF x = id /\ action \notin childKeys(nodes[id])
                          THEN [ nodes[id] EXCEPT !.children = Append(@, << action, child >>) ]
                          ELSE nodes[x] ]
         IN  expand_overwrite(added, id, Tail(action_priors))

\* expand: one child per (action, prob) pair whose action is not a key yet
RECURSIVE expand(_, _, _)
expand(nodes, id, action_priors) ==
    IF action_priors = << >> THEN nodes
    ELSE LET action == Head(action_priors)[1]
             prob == Head(action_priors)[2]
             child == Append(id, action)
             added ==
                 IF action \in childKeys(nodes[id]) THEN nodes
                 ELSE [ x \in (DOMAIN nodes) \cup { child } |->
                          IF x = child THEN MCTSTreeNode(Some(id), prob)
                          ELSE IF x = id
                               THEN [ nodes[id] EXCEPT !.children = Append(@, << action, child >>) ]
                               ELSE nodes[x] ]
         IN  expand(added, id, Tail(action_priors))

\* (variant: _Q jumps to the value backed up)
update_lastValue(node, bp_value) ==
    [ node EXCEPT !.vis_times = node.vis_times + 1,
                  !.Q_value = fracAdd(node.Q_value, fracSub(bp_value, node.Q_value)) ]

\* update: one more visit, _Q moved towards bp_value by 1/_vis_times of the gap
update(node, bp_value) ==
    [ node EXCEPT !.vis_times = node.vis_times + 1,
                  !.Q_value = fracAdd(node.Q_value,
                                      fracDivInt(fracSub(bp_value, node.Q_value),
                                                 node.vis_times + 1)) ]

\* (variant: the value stays in the node, the parent is not told)
backPropagation_leafOnly(nodes, id, bp_value) ==
    [ nodes EXCEPT ![id] = update(nodes[id], bp_value) ]

RECURSIVE backPropagation_sameSign(_, _, _)
\* (variant: the parent is given the value with the same sign)
backPropagation_sameSign(nodes, id, bp_value) ==
    LET updated == [ nodes EXCEPT ![id] = update(nodes[id], bp_value) ]
    IN  IF nodes[id].parent # None
        THEN backPropagation_sameSign(updated, nodes[id].parent[1], bp_value)
        ELSE updated

\* backPropagation: update this node, then the parent with the value negated
RECURSIVE backPropagation(_, _, _)
backPropagation(nodes, id, bp_value) ==
    LET updated == [ nodes EXCEPT ![id] = update(nodes[id], bp_value) ]
    IN  IF nodes[id].parent # None
        THEN backPropagation(updated, nodes[id].parent[1], fracNeg(bp_value))
        ELSE updated

\* evaluate: _Q + weight_c * _P * sqrt(parent._vis_times) / (1 + _vis_times).
\* (The code also stores the second term without weight_c in _U, a field it
\* never reads; the model has no _U.)
evaluate(nodes, id, weight_c) ==
    LET node == nodes[id]
    IN  << node.Q_value,
           fracDivInt(fracMul(fracInt(weight_c), node.P), 1 + node.vis_times),
           nodes[node.parent[1]].vis_times >>

\* (variant: of the items with the maximal score the last one is returned)
select_lastMax(nodes, id, weight_c) ==
    LET items == nodes[id].children
        score == [ i \in 1..Len(items) |-> evaluate(nodes, items[i][2], weight_c) ]
    IN  items[CHOOSE i \in 1..Len(items) :
                /\ \A j \in 1..(i - 1) : ~ surdLess(score[i], score[j])
                /\ \A j \in (i + 1)..Len(items) : surdLess(score[j], score[i])]

\* select: the (action, child) item with the first maximal score
select(nodes, id, weight_c) ==
    LET items == nodes[id].children
        score == [ i \in 1..Len(items) |-> evaluate(nodes, items[i][2], weight_c) ]
        less == [ i \in 1..Len(items) |-> [ j \in 1..Len(items) |->
                    surdLess(score[i], score[j]) ] ]
    IN  items[firstMax(Len(items), less)]

\* ------------------------------------------------------- policy functions
\* MCTS_expand_policy_fn: every available move with the same prior, value 0
MCTS_expand_policy_fn(b) ==
    << [ i \in 1..Len(b.availables) |-> << b.availables[i], frac(1, Len(b.availables)) >> ],
       fracInt(0) >>

\* rollout_policy_fn draws one random number per available move and the
\* rollout plays the move with the largest: any available move.
rollout_policy_fn(b) == Range(b.availables)

\* Values the network's value head is taken to return (it returns a tanh
\* output, a real in [-1, 1]).
NetValues == { fracInt(0 - 1), fracInt(0), << 1, 2 >> }

\* The network's policyValueFunc: the board's available moves, each with the
\* network's probability for that cell, and the network's value.  The policy
\* head is a softmax over all cells; the model's network gives cell m the
\* weight m + 1.  The value is any of NetValues.
policyValueFunc(b) ==
    LET cells == b.width * b.height
        total == (cells * (cells + 1)) \div 2
        policy == [ i \in 1..Len(b.availables) |->
                      << b.availables[i], frac(b.availables[i] + 1, total) >> ]
    IN  { << policy, value >> : value \in NetValues }

\* ------------------------------------------------------------------ engines
\* MCTS.__init__ and MCTSWithDNN.__init__: a fresh root, the budget, and the
\* expand bound clamped to the budget.
kDefaultWeightC == 5
kDefaultExpandBoundMCTS == 1
kDefaultExpandBoundDNN == 10
kRolloutLimit == 1000
kRootPrior == fracInt(1)
kRootId == << >>

freshTree == [ x \in { kRootId } |-> MCTSTreeNode(None, kRootPrior) ]

newMCTS(weight_c, compute_budget, expand_bound) ==
    [ kind |-> "MCTS", root |-> kRootId, nodes |-> freshTree,
      weight_c |-> weight_c, compute_budget |-> compute_budget,
      expand_bound |-> Min(expand_bound, compute_budget) ]

newMCTSWithDNN(weight_c, compute_budget, expand_bound) ==
    [ kind |-> "MCTSWithDNN", root |-> kRootId, nodes |-> freshTree,
      weight_c |-> weight_c, compute_budget |-> compute_budget,
      expand_bound |-> Min(expand_bound, compute_budget) ]

\* The loop at the head of _playout: from `id` down to a leaf, playing each
\* selected action on `state`.  Returns the leaf, the state there and the
\* nodes passed, root first.
RECURSIVE descend(_, _, _, _, _)
descend(nodes, id, state, weight_c, path) ==
    IF is_leaf(nodes[id])
    THEN [ node |-> id, state |-> state, path |-> Append(path, id) ]
    ELSE LET item == select(nodes, id, weight_c)
         IN  descend(nodes, item[2], play(state, item[1]).board, weight_c, Append(path, id))

\* The loop of _evaluateRollout: the winners it can end with and the state
\* it leaves, over every choice of the random moves.
RECURSIVE rolloutLoop(_, _)
rolloutLoop(state, left) ==
    IF left = 0 THEN { [ winner_color |-> None, state |-> state, legal |-> TRUE ] }
    ELSE LET ge == gameEnd(state)
         IN  IF ge[1] THEN { [ winner_color |-> ge[2], state |-> state, legal |-> TRUE ] }
             ELSE UNION { { [ o EXCEPT !.legal = o.legal /\ play(state, a).ret = TRUE ] :
                              o \in rolloutLoop(play(state, a).board, left - 1) } :
                            a \in rollout_policy_fn(state) }

\* (variant: the colour is read when the rollout is over)
evaluateRollout_colourAtEnd(state, limit) ==
    { [ ret |-> IF o.winner_color = None THEN 0
                ELSE IF o.winner_color[1] = o.state.current_player THEN 1 ELSE 0 - 1,
        state |-> o.state, raised |-> "", legal |-> o.legal ] :
        o \in rolloutLoop(state, limit) }

\* _evaluateRollout: 0 for no winner, 1 if the winner is the player to move
\* at the leaf, -1 otherwise.  With `for _ in range(limit)` making no
\* iteration, winner_color is read unassigned: UnboundLocalError.  `legal`
\* tells that every play of the rollout returned True.
evaluateRollout(state, limit) ==
    LET player_color == state.current_player
    IN  IF limit <= 0
        THEN { [ ret |-> 0, state |-> state, raised |-> "UnboundLocalError", legal |-> TRUE ] }
        ELSE { [ ret |-> IF o.winner_color = None THEN 0
                         ELSE IF o.winner_color[1] = player_color THEN 1 ELSE 0 - 1,
                 state |-> o.state, raised |-> "", legal |-> o.legal ] :
                 o \in rolloutLoop(state, limit) }

\* One playout's record: the engine and the state object it leaves, and what
\* it did (leaf reached, nodes passed, the leaf state's gameEnd, whether the
\* leaf was expanded, the evaluator's value, the value backed up into the leaf).
playoutRecord(e, nodes, state, d, ge, grown, scalar, applied) ==
    [ mcts |-> [ e EXCEPT !.nodes = nodes ], state |-> state,
      leaf |-> d.node, path |-> d.path, leaf_state |-> d.state,
      is_end |-> ge[1], winner |-> ge[2],
      expanded |-> grown, scalar |-> scalar, applied |-> applied ]

\* (variant: a leaf that has not ended is expanded whatever its visit count)
playoutMCTS_ungated(e, state) ==
    LET d == descend(e.nodes, e.root, state, e.weight_c, << >>)
        action_probs == MCTS_expand_policy_fn(d.state)[1]
        ge == gameEnd(d.state)
        grown == ~ ge[1]
        nodes1 == IF grown THEN expand(e.nodes, d.node, action_probs) ELSE e.nodes
    IN  { playoutRecord(e, backPropagation(nodes1, d.node, fracInt(0 - r.ret)),
                        r.state, d, ge, grown, fracInt(r.ret), fracInt(0 - r.ret)) :
            r \in evaluateRollout(d.state, kRolloutLimit) }

\* MCTS._playout
playoutMCTS(e, state) ==
    LET d == descend(e.nodes, e.root, state, e.weight_c, << >>)
        action_probs == MCTS_expand_policy_fn(d.state)[1]
        ge == gameEnd(d.state)
        grown == ~ ge[1] /\ e.nodes[d.node].vis_times >= e.expand_bound
        nodes1 == IF grown THEN expand(e.nodes, d.node, action_probs) ELSE e.nodes
    IN  { playoutRecord(e, backPropagation(nodes1, d.node, fracInt(0 - r.ret)),
                        r.state, d, ge, grown, fracInt(r.ret), fracInt(0 - r.ret)) :
            r \in evaluateRollout(d.state, kRolloutLimit) }

\* (variant: the network's value is backed up at a terminal leaf too)
playoutDNN_noOverride(e, state) ==
    LET d == descend(e.nodes, e.root, state, e.weight_c, << >>)
        ge == gameEnd(d.state)
        grown == ~ ge[1] /\ e.nodes[d.node].vis_times >= e.expand_bound
    IN  { LET nodes1 == IF grown THEN expand(e.nodes, d.node, pv[1]) ELSE e.nodes
          IN  playoutRecord(e, backPropagation(nodes1, d.node, fracNeg(pv[2])),
                            d.state, d, ge, grown, pv[2], fracNeg(pv[2])) :
            pv \in policyValueFunc(d.state) }

\* MCTSWithDNN._playout
playoutDNN(e, state) ==
    LET d == descend(e.nodes, e.root, state, e.weight_c, << >>)
        ge == gameEnd(d.state)
        grown == ~ ge[1] /\ e.nodes[d.node].vis_times >= e.expand_bound
    IN  { LET policy == pv[1]
              value == IF ~ ge[1] THEN pv[2]
                       ELSE IF ge[2] = None THEN fracInt(0)
                       ELSE IF d.state.current_player = ge[2][1] THEN fracInt(1)
                       ELSE fracInt(0 - 1)
              nodes1 == IF grown THEN expand(e.nodes, d.node, policy) ELSE e.nodes
          IN  playoutRecord(e, backPropagation(nodes1, d.node, fracNeg(value)),
                            d.state, d, ge, grown, pv[2], fracNeg(value)) :
            pv \in policyValueFunc(d.state) }

playout(e, state) ==
    IF e.kind = "MCTS" THEN playoutMCTS(e, state) ELSE playoutDNN(e, state)

\* The nodes still referenced from `root` (through children and parent
\* links); the others are garbage.
RECURSIVE linked(_, _, _)
linked(nodes, seen, frontier) ==
    IF frontier = {} THEN seen
    ELSE LET all == seen \cup frontier
             next == UNION { { nodes[x].children[i][2] : i \in 1..Len(nodes[x].children) }
                               \cup Range(nodes[x].parent) : x \in frontier }
         IN  linked(nodes, all, next \ all)

collect(nodes, root) == [ x \in linked(nodes, {}, { root }) |-> nodes[x] ]

\* (variant: the root is kept)
withFreshRoot_keepsTree(e) == e

\* self.root = MCTSTreeNode(None, 1.0)
withFreshRoot(e) ==
    LET nodes1 == [ x \in (DOMAIN e.nodes) \cup { kRootId } |->
                      IF x = kRootId THEN MCTSTreeNode(None, kRootPrior) ELSE e.nodes[x] ]
    IN  [ e EXCEPT !.root = kRootId, !.nodes = collect(nodes1, kRootId) ]

\* reset (both engines)
reset(e) == withFreshRoot(e)

\* (variant: the child becomes the root but keeps its parent)
updateWithMove_keepsParent(e, last_move) ==
    IF last_move # None /\ last_move[1] \in childKeys(e.nodes[e.root])
    THEN LET child == childAt(e.nodes[e.root], last_move[1])
         IN  [ e EXCEPT !.root = child, !.nodes = collect(e.nodes, child) ]
    ELSE withFreshRoot(e)

\* updateWithMove (both engines): step into the child under last_move if the
\* root has one, else start a new tree
updateWithMove(e, last_move) ==
    IF last_move # None /\ last_move[1] \in childKeys(e.nodes[e.root])
    THEN LET child == childAt(e.nodes[e.root], last_move[1])
             nodes1 == [ e.nodes EXCEPT ![child].parent = None ]
         IN  [ e EXCEPT !.root = child, !.nodes = collect(nodes1, child) ]
    ELSE withFreshRoot(e)

\* max(self.root.children.items(), key=vis_times)[0]; max() of an empty
\* sequence raises ValueError
mostVisited(e) ==
    LET items == e.nodes[e.root].children
        less == [ i \in 1..Len(items) |-> [ j \in 1..Len(items) |->
                    e.nodes[items[i][2]].vis_times < e.nodes[items[j][2]].vis_times ] ]
    IN  IF items = << >> THEN [ ret |-> None, raised |-> "ValueError" ]
        ELSE [ ret |-> Some(items[firstMax(Len(items), less)][1]), raised |-> "" ]

RECURSIVE sumSeq(_)
sumSeq(s) == IF s = << >> THEN 0 ELSE Head(s) + sumSeq(Tail(s))

RECURSIVE maxSeq(_)
maxSeq(s) == IF Len(s) = 1 THEN s[1] ELSE LET m == maxSeq(Tail(s)) IN IF Head(s) > m THEN Head(s) ELSE m

\* act_vis and its unzipping: the root's actions and their visit counts;
\* unpacking zip(*[]) raises ValueError
actVis(e) ==
    LET items == e.nodes[e.root].children
    IN  [ acts |-> [ i \in 1..Len(items) |-> items[i][1] ],
          visits |-> [ i \in 1..Len(items) |-> e.nodes[items[i][2]].vis_times ] ]

\* softmax(1.0 / exploration_level * log(visits + 1e-10)) for exploration_level
\* 1: (v + eps) / sum(v + eps) with eps = 1e-10.  A number a + b * eps is the
\* pair << a, b >>; a probability is [ num, den ] of two such numbers.
softmaxLogVisits(visits) ==
    [ i \in 1..Len(visits) |->
        [ num |-> << visits[i], 1 >>, den |-> << sumSeq(visits), Len(visits) >> ] ]

\* action_prob_via_vis_times: (v - max) / sum(v - max); 0/0 is nan, written
\* as the fraction << 0, 0 >>
action_prob_via_vis_times(vis_times) ==
    LET activates == [ i \in 1..Len(vis_times) |-> vis_times[i] - maxSeq(vis_times) ]
        total == sumSeq(activates)
    IN  [ i \in 1..Len(vis_times) |->
            IF total = 0 THEN << 0, 0 >>
            ELSE frac(0 - activates[i], 0 - total) ]

\* The tail of MCTS.getMove and MCTS.think, after the playouts
returnMCTS(e) == mostVisited(e)

\* The tail of MCTSWithDNN.getMove, after the playouts
returnGetMoveDNN(e) ==
    LET av == actVis(e)
    IN  IF av.acts = << >> THEN [ ret |-> None, raised |-> "ValueError" ]
        ELSE [ ret |-> Some(<< av.acts, softmaxLogVisits(av.visits) >>), raised |-> "" ]

\* The tail of MCTSWithDNN.think, after the playouts
returnThinkDNN(e) ==
    LET av == actVis(e)
    IN  IF av.acts = << >> THEN [ ret |-> None, raised |-> "ValueError" ]
        ELSE [ ret |-> Some(<< av.acts, action_prob_via_vis_times(av.visits) >>), raised |-> "" ]

\* copy.deepcopy(state): a new object with the same field values
deepcopy(state) == state

\* (variant: the playout runs on the caller's object)
playoutOnCopy_shared(e, state) == playout(e, state)

\* One iteration of the playout loops of getMove and think: a playout on a
\* copy of the caller's state.  Returns the playout's record with `state`
\* the caller's object after the iteration.
playoutOnCopy(e, state) ==
    { [ r EXCEPT !.state = state ] : r \in playout(e, deepcopy(state)) }

\* ------------------------------------------------- the search specification
\* Budgets of the engines constructed.
MaxBudget == 2
\* Playouts run in one behaviour, over all getMove and think calls.
MaxPlayouts == 3
\* The search starts on the empty board of one column and three rows (one to
\* win) or on the 3 x 3 board (three to win) after the moves of Opening, from
\* where gameEnd can still report a winner or a draw.
Opening == << 0, 1, 2, 3, 7, 8 >>

StartBoards ==
    { newBoard(1, 3, 1), playAll(newBoard(3, 3, 3), Opening) }

\* Engines as the players construct them (default expand bound) and with an
\* expand bound of 0.
Engines ==
    { newMCTS(kDefaultWeightC, b, x) :
        b \in 1..MaxBudget, x \in { 0, kDefaultExpandBoundMCTS } }
    \cup { newMCTSWithDNN(kDefaultWeightC, b, x) :
             b \in 1..MaxBudget, x \in { 0, kDefaultExpandBoundDNN } }

Idle == [ name |-> "", left |-> 0 ]

\* The history of a tree of fresh nodes: no playout passed any of them.
noPasses(nodes) ==
    [ passes |-> [ x \in DOMAIN nodes |-> 0 ],
      totals |-> [ x \in DOMAIN nodes |-> fracInt(0) ] ]

InitMCTS ==
    /\ board \in StartBoards
    /\ op = "init"
    /\ arg = << >>
    /\ ret = None
    /\ raised = ""
    /\ mcts \in Engines
    /\ search = Idle
    /\ thePlayer = None
    /\ hist = [ passes |-> noPasses(mcts.nodes).passes,
                totals |-> noPasses(mcts.nodes).totals,
                playouts |-> 0, last |-> << >>, dropped |-> 0,
                board_before |-> board, vis_before |-> 0 ]

is_empty(b) == b.moved = << >>

rootVisits(e) == e.nodes[e.root].vis_times

\* A call of getMove or think begins: the history notes the caller's board
\* and the root's visit count.
Begin(name, a) ==
    /\ op' = name
    /\ arg' = a
    /\ raised' = ""
    /\ hist' = [ hist EXCEPT !.board_before = board, !.vis_before = rootVisits(mcts),
                             !.last = << >>, !.dropped = 0 ]

\* (variant: half the width)
openingMove_halfWidth(state) == state.width \div 2

\* MCTS.getMove on a board without stones: the middle of the availables
openingMove(state) == Len(state.availables) \div 2

\* getMove.  MCTS.getMove on a board without stones returns at once;
\* otherwise compute_budget playouts follow.  MCTSWithDNN.getMove takes the
\* exploration level (1 here) and has no such case.
GetMove ==
    /\ search = Idle
    /\ hist.playouts + mcts.compute_budget <= MaxPlayouts
    /\ Begin("getMove", IF mcts.kind = "MCTS" THEN << >> ELSE << 1 >>)
    /\ IF mcts.kind = "MCTS" /\ is_empty(board)
       THEN /\ ret' = Some(openingMove(board))
            /\ search' = Idle
       ELSE /\ ret' = None
            /\ search' = [ name |-> "getMove", left |-> mcts.compute_budget ]
    /\ UNCHANGED << board, mcts, thePlayer >>

\* think(state, decay_level): compute_budget // decay_level playouts follow
DecayLevels == { 1, 2 }

Think ==
    \E decay_level \in DecayLevels :
        /\ search = Idle
        /\ hist.playouts + (mcts.compute_budget \div decay_level) <= MaxPlayouts
        /\ Begin("think", << decay_level >>)
        /\ ret' = None
        /\ search' = [ name |-> "think", left |-> mcts.compute_budget \div decay_level ]
        /\ UNCHANGED << board, mcts, thePlayer >>

\* The value backed up into the i-th node of a playout's path: the leaf (the
\* last node) gets `applied`, each node above it the negation of the one below.
appliedAt(r, i) ==
    IF (Len(r.path) - i) % 2 = 0 THEN r.applied ELSE fracNeg(r.applied)

\* The history after a playout with record r.
noted(h, r) ==
    LET on(x) == { i \in 1..Len(r.path) : r.path[i] = x }
        was(f, x, d) == IF x \in DOMAIN f THEN f[x] ELSE d
    IN  [ h EXCEPT
            !.passes = [ x \in DOMAIN r.mcts.nodes |->
                           was(h.passes, x, 0) + Cardinality(on(x)) ],
            !.totals = [ x \in DOMAIN r.mcts.nodes |->
                           IF on(x) = {} THEN was(h.totals, x, fracInt(0))
                           ELSE fracAdd(was(h.totals, x, fracInt(0)),
                                        appliedAt(r, CHOOSE i \in on(x) : TRUE)) ],
            !.playouts = h.playouts + 1,
            !.last = << [ leaf |-> r.leaf, path |-> r.path, leaf_state |-> r.leaf_state,
                          is_end |-> r.is_end, winner |-> r.winner,
                          expanded |-> r.expanded, scalar |-> r.scalar,
                          applied |-> r.applied, tree_before |-> mcts.nodes ] >> ]

\* One iteration of the playout loop of the call in progress
Playout ==
    /\ search.left > 0
    /\ \E r \in playoutOnCopy(mcts, board) :
        /\ board' = r.state
        /\ mcts' = r.mcts
        /\ hist' = noted(hist, r)
    /\ search' = [ search EXCEPT !.left = search.left - 1 ]
    /\ UNCHANGED << op, arg, ret, raised, thePlayer >>

\* The call in progress returns (or raises) after its last playout
Return ==
    /\ search.name # ""
    /\ search.left = 0
    /\ LET r == IF mcts.kind = "MCTS" THEN returnMCTS(mcts)
                ELSE IF search.name = "getMove" THEN returnGetMoveDNN(mcts)
                ELSE returnThinkDNN(mcts)
       IN  /\ ret' = r.ret
           /\ raised' = r.raised
    /\ search' = Idle
    /\ UNCHANGED << board, mcts, hist, op, arg, thePlayer >>

\* The history of the nodes kept by a tree advance or a reset, and how many
\* nodes of the tree before it are gone
kept(h, nodes, reused) ==
    [ h EXCEPT !.passes = [ x \in DOMAIN nodes |-> IF reused THEN h.passes[x] ELSE 0 ],
               !.totals = [ x \in DOMAIN nodes |-> IF reused THEN h.totals[x] ELSE fracInt(0) ],
               !.last = << >>,
               !.board_before = board,
               !.vis_before = 0,
               !.dropped = IF reused THEN Cardinality((DOMAIN h.passes) \ (DOMAIN nodes))
                           ELSE Cardinality(DOMAIN h.passes) ]

\* Arguments of updateWithMove: None, every key of the root's children and
\* the lowest cell of the board that is not a key.
LastMoves(e, b) ==
    LET keys == childKeys(e.nodes[e.root])
        others == Cells(b) \ keys
    IN  { None } \cup { Some(m) : m \in keys }
            \cup { Some(m) : m \in { x \in others : \A y \in others : x <= y } }

UpdateWithMove ==
    \E last_move \in LastMoves(mcts, board) :
        /\ search = Idle
        /\ mcts' = updateWithMove(mcts, last_move)
        /\ op' = "updateWithMove"
        /\ arg' = last_move
        /\ ret' = None
        /\ raised' = ""
        /\ hist' = kept(hist, mcts'.nodes,
                        last_move # None /\ last_move[1] \in childKeys(mcts.nodes[mcts.root]))
        /\ UNCHANGED << board, search, thePlayer >>

Reset ==
    /\ search = Idle
    /\ mcts' = reset(mcts)
    /\ op' = "reset"
    /\ arg' = << >>
    /\ ret' = None
    /\ raised' = ""
    /\ hist' = kept(hist, mcts'.nodes, FALSE)
    /\ UNCHANGED << board, search, thePlayer >>

\* The history once a call's result has been used: only the counts stay.
settled(h, b) ==
    [ h EXCEPT !.last = << >>, !.dropped = 0, !.board_before = b, !.vis_before = 0 ]

\* The game goes on between the engine's calls: a legal play on the caller's
\* board while the game has not ended.
BoardPlay ==
    /\ search = Idle
    /\ ~ gameEnd(board)[1]
    /\ \E m \in Range(board.availables) :
        LET r == play(board, m)
        IN  /\ board' = r.board
            /\ op' = "play"
            /\ arg' = Some(m)
            /\ ret' = r.ret
            /\ raised' = r.raised
    /\ hist' = settled(hist, board')
    /\ UNCHANGED << mcts, search, thePlayer >>

NextMCTS ==
    \/ GetMove
    \/ Think
    \/ Playout
    \/ Return
    \/ UpdateWithMove
    \/ Reset
    \/ BoardPlay

SpecMCTS == InitMCTS /\ [][NextMCTS]_vars

\* ------------------------------------------------------------ search claims
\* C12 (visit-count conservation): every node's visit count is the number of
\* playouts, since the node was created, whose path from the root to the leaf
\* included the node; and no child has more visits than its parent.
C12_VisitConservation ==
    \A x \in DOMAIN mcts.nodes :
        /\ mcts.nodes[x].vis_times = hist.passes[x]
        /\ \A i \in 1..Len(mcts.nodes[x].children) :
               mcts.nodes[x].vis_times >= mcts.nodes[mcts.nodes[x].children[i][2]].vis_times

\* A playout has gone through the root into a leaf below it, in a tree
\* advanced to one of the root's children.
C12_Witness ==
    /\ mcts.root # kRootId
    /\ hist.last # << >>
    /\ Len(hist.last[1].path) >= 2
    /\ mcts.nodes[hist.last[1].leaf].vis_times >= 1

\* C13 (value is a bounded running mean): a node visited N > 0 times has _Q
\* equal to the sum of the N values backed up into it divided by N, and that
\* lies in [-1, 1]; a node never visited has _Q equal to 0.
C13_RunningMean ==
    \A x \in DOMAIN mcts.nodes :
        LET node == mcts.nodes[x]
        IN  IF node.vis_times = 0 THEN node.Q_value = fracInt(0)
            ELSE /\ node.Q_value = fracDivInt(hist.totals[x], node.vis_times)
                 /\ ~ fracLess(node.Q_value, fracInt(0 - 1))
                 /\ ~ fracLess(fracInt(1), node.Q_value)

\* A node of the rollout engine (values -1, 0, 1) visited three times or more
\* whose mean is not an integer.
C13_Witness ==
    /\ mcts.kind = "MCTS"
    /\ \E x \in DOMAIN mcts.nodes :
        /\ mcts.nodes[x].vis_times >= 3
        /\ mcts.nodes[x].Q_value[2] > 1

\* The nodes of the subtree under `id`, `id` included.
RECURSIVE subtree(_, _)
subtree(nodes, id) ==
    { id } \cup UNION { subtree(nodes, nodes[id].children[i][2]) :
                          i \in 1..Len(nodes[id].children) }

\* C14 (tree reuse): updateWithMove(m) with m a key of root.children makes
\* that child the root, with parent None, and leaves the child's whole subtree
\* (children, visit counts, Q values and priors of every descendant) as it was.
C14_TreeReuse ==
    [][ ( /\ op' = "updateWithMove"
          /\ arg' # None
          /\ arg'[1] \in childKeys(mcts.nodes[mcts.root]) )
        => LET child == childAt(mcts.nodes[mcts.root], arg'[1])
               before == subtree(mcts.nodes, child)
           IN  /\ mcts'.root = child
               /\ mcts'.nodes[child].parent = None
               /\ subtree(mcts'.nodes, child) = before
               /\ DOMAIN mcts'.nodes = before
               /\ \A x \in before :
                    /\ mcts'.nodes[x].children = mcts.nodes[x].children
                    /\ mcts'.nodes[x].vis_times = mcts.nodes[x].vis_times
                    /\ mcts'.nodes[x].Q_value = mcts.nodes[x].Q_value
                    /\ mcts'.nodes[x].P = mcts.nodes[x].P
                    /\ (x # child => mcts'.nodes[x].parent = mcts.nodes[x].parent)
      ]_vars

\* updateWithMove has just stepped into a visited child that has children.
C14_Witness ==
    /\ op = "updateWithMove"
    /\ arg # None
    /\ mcts.root # kRootId
    /\ mcts.root[Len(mcts.root)] = arg[1]
    /\ mcts.nodes[mcts.root].vis_times >= 1
    /\ mcts.nodes[mcts.root].children # << >>

\* C15 (tree discard): reset(), and updateWithMove(m) for an m that is not a
\* key of root.children (None included), leave a fresh root: no parent, no
\* children, no visits, Q equal to 0 and prior 1.
C15_TreeDiscard ==
    [][ ( \/ op' = "reset"
          \/ /\ op' = "updateWithMove"
             /\ (arg' = None \/ arg'[1] \notin childKeys(mcts.nodes[mcts.root])) )
        => /\ mcts'.nodes[mcts'.root] =
                [ parent |-> None, children |-> << >>, vis_times |-> 0,
                  Q_value |-> << 0, 1 >>, P |-> << 1, 1 >> ]
           /\ DOMAIN mcts'.nodes = { mcts'.root }
      ]_vars

\* updateWithMove with a cell that was no key has just discarded a tree of a
\* visited root and its children.
C15_Witness ==
    /\ op = "updateWithMove"
    /\ arg # None
    /\ mcts.root = kRootId
    /\ hist.dropped >= 4

\* C16 (search never mutates the caller's board): from the entry of getMove or
\* think to its return the board passed in (states, availables, moved,
\* current_player, last_move) is as it was at the entry.
C16_BoardUntouched ==
    op \in { "getMove", "think" } => board = hist.board_before

\* A call has returned after playouts, the last of which played a move (on
\* its copy) on the way down the tree.
C16_Witness ==
    /\ op \in { "getMove", "think" }
    /\ search = Idle
    /\ raised = ""
    /\ hist.last # << >>
    /\ Len(hist.last[1].path) >= 2
    /\ hist.last[1].leaf_state # board

\* C17 (pure getMove result, as claimed): on a board that has stones and is
\* not terminal, MCTS.getMove runs compute_budget playouts (the root's visit
\* count grows by compute_budget) and returns a key of root.children whose
\* child has the largest visit count among the root's children.
C17_PureGetMove ==
    ( /\ mcts.kind = "MCTS"
      /\ op = "getMove"
      /\ search = Idle
      /\ ~ is_empty(board)
      /\ ~ gameEnd(board)[1] )
    => /\ raised = ""
       /\ rootVisits(mcts) = hist.vis_before + mcts.compute_budget
       /\ ret # None
       /\ ret[1] \in childKeys(mcts.nodes[mcts.root])
       /\ \A i \in 1..Len(mcts.nodes[mcts.root].children) :
            mcts.nodes[mcts.nodes[mcts.root].children[i][2]].vis_times
                <= mcts.nodes[childAt(mcts.nodes[mcts.root], ret[1])].vis_times

\* C18 (opening special case): MCTS.getMove on a board without stones returns
\* (width * height) // 2 and runs no playout: the tree (root, children, visit
\* counts, Q) and the board are as before the call.
C18_OpeningMove ==
    [][ ( /\ op' = "getMove"
          /\ search = Idle
          /\ mcts.kind = "MCTS"
          /\ is_empty(board) )
        => /\ raised' = ""
           /\ ret' = Some((board.width * board.height) \div 2)
           /\ search' = Idle
           /\ mcts' = mcts
           /\ board' = board
           /\ hist'.playouts = hist.playouts
      ]_vars

\* MCTS.getMove has returned on the board without stones, with a tree that
\* earlier think calls had grown.
C18_Witness ==
    /\ op = "getMove"
    /\ search = Idle
    /\ mcts.kind = "MCTS"
    /\ is_empty(board)
    /\ ret = Some(1)
    /\ mcts.nodes[mcts.root].children # << >>
    /\ rootVisits(mcts) >= 2

\* The value C19 names for a terminal leaf state: 0 without a winner, 1 if
\* the winner is the opponent of the player to move there, -1 if the winner
\* is the player to move there.
terminalValue(state, winner) ==
    IF winner = None THEN fracInt(0)
    ELSE IF winner[1] = 1 - state.current_player THEN fracInt(1)
    ELSE fracInt(0 - 1)

\* C19 (guided terminal override): when the leaf position of a playout of
\* MCTSWithDNN has ended, the leaf is updated with the value of the outcome
\* (0, +1 for a win of the player who moved into the leaf, -1 for a win of the
\* player to move), whatever the network returned, and is not expanded.
C19_TerminalOverride ==
    ( /\ mcts.kind = "MCTSWithDNN"
      /\ hist.last # << >>
      /\ hist.last[1].is_end )
    => LET l == hist.last[1]
           was == l.tree_before[l.leaf]
           now == mcts.nodes[l.leaf]
           v == terminalValue(l.leaf_state, l.winner)
       IN  /\ now.vis_times = was.vis_times + 1
           /\ now.Q_value = fracDivInt(fracAdd(fracMul(was.Q_value, fracInt(was.vis_times)), v),
                                       was.vis_times + 1)
           /\ now.children = << >>
           /\ ~ l.expanded

\* A guided playout has ended in a drawn position for which the network
\* returned a value other than 0.
C19_Witness ==
    /\ mcts.kind = "MCTSWithDNN"
    /\ hist.last # << >>
    /\ hist.last[1].is_end
    /\ hist.last[1].winner = None
    /\ hist.last[1].scalar # fracInt(0)
    /\ Len(hist.last[1].path) >= 2

\* C20 (guided getMove distribution, as claimed): on a board that is not
\* terminal, MCTSWithDNN.getMove returns the keys of root.children, at least
\* one, with probabilities that sum to 1 and grow with the visit count; at
\* exploration level 1 each is (visits + eps) / (sum of visits + n * eps).
C20_GuidedGetMove ==
    ( /\ mcts.kind = "MCTSWithDNN"
      /\ op = "getMove"
      /\ search = Idle
      /\ ~ gameEnd(board)[1] )
    => /\ raised = ""
       /\ ret # None
       /\ LET acts == ret[1][1]
              probs == ret[1][2]
              n == Len(acts)
              root == mcts.nodes[mcts.root]
              visits(i) == mcts.nodes[childAt(root, acts[i])].vis_times
          IN  /\ n >= 1
              /\ n = Len(root.children)
              /\ Range(acts) = childKeys(root)
              /\ Len(probs) = n
              /\ \A i \in 1..n :
                   /\ probs[i].num = << visits(i), 1 >>
                   /\ probs[i].den = << sumSeq([ j \in 1..n |-> visits(j) ]), n >>
              /\ sumSeq([ i \in 1..n |-> probs[i].num[1] ]) = probs[1].den[1]
              /\ sumSeq([ i \in 1..n |-> probs[i].num[2] ]) = probs[1].den[2]
              /\ \A i, j \in 1..n :
                   visits(i) >= visits(j) => probs[i].num[1] >= probs[j].num[1]


\* ================================================================== players
\* A Player object: its class, its colour, and what its constructor keeps.
\* The search tree of an MCTS player (_search_tree) is the variable mcts.
kFromStdin == 0
kFromGUI == 1

HumanPlayer(color, input_mode) ==
    [ kind |-> "HumanPlayer", color |-> color,
      input_mode |-> IF input_mode = "gui" THEN kFromGUI ELSE kFromStdin,
      network |-> None, self_play |-> FALSE ]

\* PureMCTSPlayer(color, weight_c, compute_budget): the player and the MCTS it
\* constructs (expand bound left at the engine's default)
PureMCTSPlayer(color, weight_c, compute_budget) ==
    [ self |-> [ kind |-> "PureMCTSPlayer", color |-> color, input_mode |-> 0,
                 network |-> None, self_play |-> FALSE ],
      search_tree |-> newMCTS(weight_c, compute_budget, kDefaultExpandBoundMCTS) ]

\* DNNMCTSPlayer(color, network, weight_c, compute_budget, self_play): the
\* network is known by its input size; exploration_level is 1
DNNMCTSPlayer(color, network, weight_c, compute_budget, self_play) ==
    [ self |-> [ kind |-> "DNNMCTSPlayer", color |-> color, input_mode |-> 0,
                 network |-> Some(network), self_play |-> self_play ],
      search_tree |-> newMCTSWithDNN(weight_c, compute_budget, kDefaultExpandBoundDNN) ]

\* Board.isValidMove(move): an integer of the board that was not played
isValidMove(b, move) ==
    /\ move # None
    /\ ~ (move[1] < 0 \/ move[1] >= b.width * b.height)
    /\ move[1] \notin Range(b.moved)

\* (variant: the pure player advances its tree before it checks the colour)
getActionEnter_lateCheck(p, e, b) ==
    IF p.kind = "PureMCTSPlayer" /\ b.current_player # p.color
    THEN [ raised |-> "RuntimeError", mcts |-> updateWithMove(e, b.last_move),
           done |-> TRUE, ret |-> None ]
    ELSE IF b.current_player # p.color
    THEN [ raised |-> "RuntimeError", mcts |-> e, done |-> TRUE, ret |-> None ]
    ELSE [ raised |-> "", mcts |-> e, done |-> FALSE, ret |-> None ]

\* (variant: a PureMCTSPlayer does not step its tree by the board's last move
\* before the search)
getActionEnter_noAdvance(p, e, b) ==
    IF b.current_player # p.color
    THEN [ raised |-> "RuntimeError", mcts |-> e, done |-> TRUE, ret |-> None ]
    ELSE IF p.kind = "HumanPlayer"
    THEN [ raised |-> "", mcts |-> e, done |-> FALSE, ret |-> None ]
    ELSE IF p.kind = "PureMCTSPlayer"
    THEN IF is_empty(b)
         THEN LET next_move == Some(openingMove(b))
              IN  [ raised |-> "", mcts |-> updateWithMove(e, next_move),
                    done |-> TRUE, ret |-> next_move ]
         ELSE [ raised |-> "", mcts |-> e, done |-> FALSE, ret |-> None ]
    ELSE IF b.width # p.network[1].width \/ b.height # p.network[1].height
    THEN [ raised |-> "ValueError", mcts |-> e, done |-> TRUE, ret |-> None ]
    ELSE [ raised |-> "", mcts |-> e, done |-> FALSE, ret |-> None ]

\* getAction up to its search: the colour check of the three classes, the
\* size check of DNNMCTSPlayer, and PureMCTSPlayer's advance of the tree by
\* board.last_move, with MCTS.getMove's return at once on a board without
\* stones.  `done` tells that getAction is over, `mcts` is the tree after it.
getActionEnter(p, e, b) ==
    IF b.current_player # p.color
    THEN [ raised |-> "RuntimeError", mcts |-> e, done |-> TRUE, ret |-> None ]
    ELSE IF p.kind = "HumanPlayer"
    THEN [ raised |-> "", mcts |-> e, done |-> FALSE, ret |-> None ]
    ELSE IF p.kind = "PureMCTSPlayer"
    THEN LET e1 == updateWithMove(e, b.last_move)
         IN  IF is_empty(b)
             THEN LET next_move == Some(openingMove(b))
                  IN  [ raised |-> "", mcts |-> updateWithMove(e1, next_move),
                        done |-> TRUE, ret |-> next_move ]
             ELSE [ raised |-> "", mcts |-> e1, done |-> FALSE, ret |-> None ]
    ELSE IF b.width # p.network[1].width \/ b.height # p.network[1].height
    THEN [ raised |-> "ValueError", mcts |-> e, done |-> TRUE, ret |-> None ]
    ELSE [ raised |-> "", mcts |-> e, done |-> FALSE, ret |-> None ]

\* getAction after the search.  PureMCTSPlayer: the most visited move, and the
\* tree advanced by it.  DNNMCTSPlayer: a move drawn from the actions of
\* getMove (every action has a positive probability at exploration level 1,
\* and with the Dirichlet noise of self-play); the tree is advanced by it,
\* and reset by board.last_move first unless in self-play.
getActionLeave(p, e, b) ==
    IF p.kind = "PureMCTSPlayer"
    THEN LET r == returnMCTS(e)
         IN  IF r.raised # ""
             THEN { [ raised |-> r.raised, mcts |-> e, ret |-> None ] }
             ELSE { [ raised |-> "", mcts |-> updateWithMove(e, r.ret), ret |-> r.ret ] }
    ELSE LET r == returnGetMoveDNN(e)
         IN  IF r.raised # ""
             THEN { [ raised |-> r.raised, mcts |-> e, ret |-> None ] }
             ELSE LET actions == r.ret[1][1]
                      e1 == IF p.self_play THEN e ELSE updateWithMove(e, b.last_move)
                  IN  { [ raised |-> "", mcts |-> updateWithMove(e1, Some(move)),
                          ret |-> Some(move) ] : move \in Range(actions) }

\* ------------------------------------------------- the player specification
\* Input sizes of the networks: those of the two start boards.
Networks == { [ width |-> 1, height |-> 3 ], [ width |-> 3, height |-> 3 ] }

PlayerBudgets == 1..MaxBudget

NewPlayers ==
    { [ self |-> HumanPlayer(c, m), search_tree |-> None ] :
        c \in Players, m \in { "stdin", "gui" } }
    \cup { PureMCTSPlayer(c, kDefaultWeightC, n) : c \in Players, n \in PlayerBudgets }
    \cup { DNNMCTSPlayer(c, w, kDefaultWeightC, n, s) :
             c \in Players, w \in Networks, n \in PlayerBudgets, s \in BOOLEAN }

InitPlayer ==
    /\ board \in StartBoards
    /\ op = "init"
    /\ arg = << >>
    /\ ret = None
    /\ raised = ""
    /\ \E p \in NewPlayers :
        /\ thePlayer = Some(p.self)
        /\ mcts = p.search_tree
    /\ search = Idle
    /\ hist = [ passes |-> IF mcts = None THEN << >> ELSE noPasses(mcts.nodes).passes,
                totals |-> IF mcts = None THEN << >> ELSE noPasses(mcts.nodes).totals,
                playouts |-> 0, last |-> << >>, dropped |-> 0,
                board_before |-> board, vis_before |-> 0 ]

\* The history after the tree went from e to e2 by updateWithMove calls
advanced(h, e, e2) ==
    IF e2 = e THEN h
    ELSE kept(h, e2.nodes, e2.root # kRootId /\ e2.root \in DOMAIN e.nodes)

\* getAction(board) begins.  A wrong colour raises; a human's move is read
\* (stdin: until a location names a valid move; gui: None is returned); an
\* MCTS player's search of compute_budget playouts follows.
GetAction ==
    /\ search = Idle
    /\ thePlayer # None
    /\ LET p == thePlayer[1]
           r == getActionEnter(p, mcts, board)
       IN  /\ op' = "getAction"
           /\ arg' = << >>
           /\ raised' = r.raised
           /\ mcts' = r.mcts
           /\ IF r.done
              THEN /\ ret' = r.ret
                   /\ search' = Idle
                   /\ hist' = IF r.raised # "" THEN hist ELSE advanced(hist, mcts, r.mcts)
              ELSE IF p.kind = "HumanPlayer"
              THEN /\ IF p.input_mode = kFromGUI
                      THEN ret' = None
                      ELSE \E l \in LocationArgs(board) :
                              /\ isValidMove(board, locationToMove(board, l))
                              /\ ret' = locationToMove(board, l)
                   /\ search' = Idle
                   /\ hist' = hist
              ELSE /\ hist.playouts + mcts.compute_budget <= MaxPlayouts
                   /\ ret' = None
                   /\ search' = [ name |-> "getAction", left |-> mcts.compute_budget ]
                   /\ hist' = [ advanced(hist, mcts, r.mcts) EXCEPT
                                  !.board_before = board,
                                  !.vis_before = rootVisits(r.mcts),
                                  !.last = << >>, !.dropped = 0 ]
    /\ UNCHANGED << board, thePlayer >>

\* getAction returns (or raises) after the last playout of its search
ReturnAction ==
    /\ search.name = "getAction"
    /\ search.left = 0
    /\ \E r \in getActionLeave(thePlayer[1], mcts, board) :
        /\ ret' = r.ret
        /\ raised' = r.raised
        /\ mcts' = r.mcts
        /\ hist' = advanced(hist, mcts, r.mcts)
    /\ search' = Idle
    /\ UNCHANGED << board, op, arg, thePlayer >>

NextPlayer ==
    \/ GetAction
    \/ Playout
    \/ ReturnAction
    \/ BoardPlay

SpecPlayer == InitPlayer /\ [][NextPlayer]_vars

\* ------------------------------------------------------------ player claims
\* C21 (a turn-order violation fails fast): getAction of a human, a pure MCTS
\* or a DNN MCTS player called while board.current_player differs from the
\* player's colour raises RuntimeError, and neither the board nor the
\* player's search tree has changed.
C21_WrongTurnFailsFast ==
    [][ ( /\ search = Idle
          /\ search' = Idle
          /\ op' = "getAction"
          /\ board.current_player # thePlayer[1].color )
        => ( /\ raised' = "RuntimeError"
             /\ board' = board
             /\ mcts' = mcts ) ]_vars

C21_Witness ==
    /\ op = "getAction"
    /\ raised = "RuntimeError"
    /\ mcts # None
    /\ mcts.root # kRootId
    /\ board.current_player # thePlayer[1].color

\* ------------------------------------------------------ board claims, again
\* C22 (the encoding of currentState): on every board reached by initBoard,
\* play of board indices and undo, currentState() returns four planes of
\* height rows and width columns of 0 and 1: plane 0 is 1 exactly on the
\* cells with a stone of current_player, plane 1 exactly on the cells with a
\* stone of the opponent, plane 2 exactly on the cell of last_move (nowhere
\* when there is none), plane 3 is 1 everywhere if current_player is Black
\* and 0 everywhere otherwise; and the board is as it was.
C22_CurrentStateEncoding ==
    [][ op' = "currentState" =>
        /\ raised' = ""
        /\ board' = board
        /\ DOMAIN ret' = 0..3
        /\ \A plane \in 0..3 :
            /\ DOMAIN ret'[plane] = 0..(board.height - 1)
            /\ \A r \in 0..(board.height - 1) :
                /\ DOMAIN ret'[plane][r] = 0..(board.width - 1)
                /\ \A c \in 0..(board.width - 1) :
                    ret'[plane][r][c] =
                        CASE plane = 0 ->
                               IF Stone(board, r, c) = board.current_player THEN 1 ELSE 0
                          [] plane = 1 ->
                               IF Stone(board, r, c) = 1 - board.current_player THEN 1 ELSE 0
                          [] plane = 2 ->
                               IF board.last_move = Some(r * board.width + c) THEN 1 ELSE 0
                          [] plane = 3 ->
                               IF board.current_player = kPlayerBlack THEN 1 ELSE 0 ]_vars

C22_Witness ==
    /\ op = "currentState"
    /\ board.width = 2
    /\ board.height = 2
    /\ Len(board.moved) = 3
    /\ board.current_player = kPlayerWhite
    /\ ret[0][1][0] = 1
    /\ ret[1][0][1] = 1
    /\ ret[2][0][1] = 1

\* ---- initBoard on every board object, the ones whose construction fails
\* included.  Board.__init__ assigns width, height and numberToWin and then
\* calls initBoard; InitConstruct is the object at that point.
underConstruction(w, h, n) ==
    [ width |-> w, height |-> h, numberToWin |-> n,
      current_player |-> kPlayerBlack, availables |-> << >>,
      moved |-> << >>, states |-> emptyDict, last_move |-> None ]

AnyConfigs ==
    { c \in (1..MaxCells) \X (1..MaxCells) \X (1..MaxCells) : c[1] * c[2] <= MaxCells }

InitConstruct ==
    /\ \E c \in AnyConfigs : board = underConstruction(c[1], c[2], c[3])
    /\ op = "__init__"
    /\ arg = << >>
    /\ ret = None
    /\ raised = ""
    /\ mcts = None
    /\ search = None
    /\ hist = None
    /\ thePlayer = None

\* Board.__init__ has returned: its initBoard call was made and did not raise
constructed ==
    /\ op # "__init__"
    /\ ~ (board.width < board.numberToWin \/ board.height < board.numberToWin)

NextConstruct ==
    \/ InitBoard
    \/ (constructed /\ Play)
    \/ (constructed /\ Undo)

SpecConstruct == InitConstruct /\ [][NextConstruct]_vars

\* C23 (initBoard resets the board): initBoard(start_player) on any board
\* leaves current_player = start_player (Black when omitted), last_move None,
\* moved and states empty, availables the indices 0 .. width*height-1 once
\* each, and width, height and numberToWin as they were; when width or height
\* is smaller than numberToWin it raises instead and resets nothing.
C23_InitBoardResets ==
    [][ op' = "initBoard" =>
        IF board.width < board.numberToWin \/ board.height < board.numberToWin
        THEN /\ raised' # ""
             /\ board' = board
        ELSE /\ raised' = ""
             /\ board'.current_player = (IF arg' = None THEN kPlayerBlack ELSE arg'[1])
             /\ board'.last_move = None
             /\ board'.moved = << >>
             /\ DOMAIN board'.states = {}
             /\ Len(board'.availables) = board.width * board.height
             /\ Range(board'.availables) = Cells(board)
             /\ board'.width = board.width
             /\ board'.height = board.height
             /\ board'.numberToWin = board.numberToWin ]_vars

C23_Witness ==
    /\ op = "initBoard"
    /\ arg = Some(kPlayerWhite)
    /\ raised = ""
    /\ board.current_player = kPlayerWhite
    /\ board.width = 2
    /\ board.height = 2
    /\ board.moved = << >>

\* ---------------------------------------------------- the full-scan winner
\* self.moved[::-1]
reversed(moved) == [ i \in 1..Len(moved) |-> moved[Len(moved) + 1 - i] ]

RECURSIVE firstWinnerAround(_, _, _)
\* `for m in self.moved[::-1]` of getWinner: the colour of the first move m
\* whose pass, centred on m itself, finds a run.
firstWinnerAround(b, candidates, i) ==
    IF i > Len(candidates)
    THEN None
    ELSE LET curr_player == b.states[candidates[i]]
         IN  IF scanFrom(b, candidates[i], curr_player)
             THEN Some(curr_player)
             ELSE firstWinnerAround(b, candidates, i + 1)

\* Board.getWinner()
getWinner(b) ==
    IF Len(b.moved) < 2 * b.numberToWin - 1
    THEN None
    ELSE firstWinnerAround(b, reversed(b.moved), 1)

\* C24 (incremental and full scan agree, as claimed): on every board reached
\* by legal alternating plays on which no player had a line before the last
\* play, fastGetWinner() returns what getWinner() returns.
C24_FastEqualsFull ==
    ( /\ board.moved # << >>
      /\ \A p \in Players : ~HasLine(undoMove(board).board, p) )
    => fastGetWinner(board) = getWinner(board)

\* C25 (the double-move case, as claimed): when the second-to-last move
\* completed a line of numberToWin stones of its mover and the last move
\* completes no line, fastGetWinner() and gameEnd() report the second-to-last
\* mover as the winner.
C25_DoubleMove ==
    ( /\ Len(board.moved) >= 2
      /\ LET last == board.moved[Len(board.moved)]
             second == board.moved[Len(board.moved) - 1]
         IN  /\ LineThrough(undoMove(board).board, board.states[second], second)
             /\ ~ LineThrough(board, board.states[last], last) )
    => LET mover == board.states[board.moved[Len(board.moved) - 1]]
       IN  /\ fastGetWinner(board) = Some(mover)
           /\ gameEnd(board) = << TRUE, Some(mover) >>

\* ---- the two win checks on boards where index-contiguous stones can cross
\* a row end: legal plays of at most MaxStones stones, and the three queries.
MaxStones == 4

ScanBoards == { newBoard(3, 3, 2), newBoard(3, 3, 3), newBoard(2, 3, 2) }

InitScan ==
    /\ board \in ScanBoards
    /\ op = "init"
    /\ arg = << >>
    /\ ret = None
    /\ raised = ""
    /\ mcts = None
    /\ search = None
    /\ hist = None
    /\ thePlayer = None

PlayFew == Len(board.moved) < MaxStones /\ PlayLegal

FastGetWinner == Query("fastGetWinner", << >>, fastGetWinner(board))

GetWinner == Query("getWinner", << >>, getWinner(board))

NextScan ==
    \/ PlayFew
    \/ FastGetWinner
    \/ GetWinner
    \/ GameEnd

SpecScan == InitScan /\ [][NextScan]_vars

RECURSIVE reach(_, _, _, _, _, _)
\* The stones of `player` met from [row, col] (not counted) along << dr, dc >>
\* before an empty cell, a stone of the other colour or the edge of the board.
reach(b, player, row, col, dr, dc) ==
    IF Stone(b, row + dr, col + dc) = player
    THEN 1 + reach(b, player, row + dr, col + dc, dr, dc)
    ELSE 0

\* The cells of the straight segment through `centre` along d that hold
\* `player` on both sides of `centre`, `centre` counted as one.
straightRun(b, player, centre, d) ==
    LET row == centre \div b.width
        col == centre % b.width
    IN  1 + reach(b, player, row, col, d[1], d[2])
          + reach(b, player, row, col, 0 - d[1], 0 - d[2])

\* C26 (no row wrap-around): on the board of a win check, around every stone
\* and for either colour, each of the four scans counts exactly the stones of the
\* straight segment on the board through that cell, so the horizontal and the
\* two diagonal expansions stop at the left and right edges; getWinner()
\* names a player only if that player has a straight line of numberToWin
\* stones, and a pass that finds a run has found numberToWin cells in a
\* straight line through its centre.
C26_NoWrapAround ==
    op \in { "fastGetWinner", "getWinner" } =>
    /\ \A centre \in DOMAIN board.states, p \in Players :
        /\ runLength(board, centre, p, 1, {0})
             = straightRun(board, p, centre, << 0, 1 >>)
        /\ runLength(board, centre, p, board.width, {})
             = straightRun(board, p, centre, << 1, 0 >>)
        /\ runLength(board, centre, p, board.width + 1, {0})
             = straightRun(board, p, centre, << 1, 1 >>)
        /\ runLength(board, centre, p, board.width - 1, {board.width - 1})
             = straightRun(board, p, centre, << 1, 0 - 1 >>)
        /\ scanFrom(board, centre, p)
             => \E d \in Directions : straightRun(board, p, centre, d) >= board.numberToWin
    /\ \A p \in Players : getWinner(board) = Some(p) => HasLine(board, p)

\* C26 witness: getWinner() ran its scans and found no winner on the 3 x 3
\* board, two to win, where Black holds the index-contiguous cells 2 and 3
\* that cross from row 0 to row 1.
C26_Witness ==
    /\ op = "getWinner"
    /\ ret = None
    /\ board.width = 3
    /\ board.numberToWin = 2
    /\ Len(board.moved) >= 2 * board.numberToWin - 1
    /\ \A m \in { 2, 3 } : dictGet(board.states, m, kEmpty) = kPlayerBlack

\* C27 (the early guard): with fewer than 2 * numberToWin - 1 stones on the
\* board fastGetWinner() and getWinner() return None and gameEnd() reports
\* (False, None); and no win is hidden: under alternating legal play from the
\* empty board no player has numberToWin stones in a line on such a board.
C27_EarlyGuard ==
    Len(board.moved) < 2 * board.numberToWin - 1
    => /\ fastGetWinner(board) = None
       /\ getWinner(board) = None
       /\ gameEnd(board) = << FALSE, None >>
       /\ \A p \in Players : ~ HasLine(board, p)

\* C27 witness: gameEnd() reported no winner one stone below the guard, with
\* two stones of Black side by side.
C27_Witness ==
    /\ op = "gameEnd"
    /\ ret = << FALSE, None >>
    /\ board.numberToWin = 3
    /\ Len(board.moved) = 2 * board.numberToWin - 2
    /\ straightRun(board, kPlayerBlack, board.moved[1], << 0, 1 >>) = 2

\* ----------------------------------------------------- search claims, again
RECURSIVE upPath(_, _)
\* A node and its ancestors by the parent links, the node first.
upPath(nodes, id) ==
    IF nodes[id].parent = None THEN << id >>
    ELSE << id >> \o upPath(nodes, nodes[id].parent[1])

\* The mean of n values of mean q and one more value v.
meanWith(q, n, v) == fracDivInt(fracAdd(fracMul(q, fracInt(n)), v), n + 1)

\* C28 (sign alternation of the back-propagation): the backPropagation(v) of
\* a playout's leaf updates every node on the parent chain from the leaf to
\* the root once (one more visit), moving the leaf's mean by v and the mean of
\* its k-th ancestor by (-1)^k * v, and changes no node off that chain.
C28_SignAlternation ==
    hist.last # << >> =>
        LET r == hist.last[1]
            before == r.tree_before
            up == upPath(before, r.leaf)
            at(x) == { k \in 0..(Len(up) - 1) : up[k + 1] = x }
        IN  /\ up[Len(up)] = mcts.root
            /\ \A x \in DOMAIN before :
                /\ x \in DOMAIN mcts.nodes
                /\ mcts.nodes[x].parent = before[x].parent
                /\ mcts.nodes[x].P = before[x].P
                /\ (x # r.leaf \/ ~ r.expanded) => mcts.nodes[x].children = before[x].children
                /\ IF at(x) = {}
                   THEN /\ mcts.nodes[x].vis_times = before[x].vis_times
                        /\ mcts.nodes[x].Q_value = before[x].Q_value
                   ELSE /\ Cardinality(at(x)) = 1
                        /\ mcts.nodes[x].vis_times = before[x].vis_times + 1
                        /\ LET k == CHOOSE k \in at(x) : TRUE
                               v == IF k % 2 = 0 THEN r.applied ELSE fracNeg(r.applied)
                           IN  mcts.nodes[x].Q_value
                                 = meanWith(before[x].Q_value, before[x].vis_times, v)
            /\ \A x \in (DOMAIN mcts.nodes) \ (DOMAIN before) :
                /\ mcts.nodes[x].vis_times = 0
                /\ mcts.nodes[x].Q_value = fracInt(0)

\* C28 witness: a playout backed a value other than 0 up from a leaf two
\* levels below the root, past a sibling that it left alone.
C28_Witness ==
    /\ hist.last # << >>
    /\ Len(upPath(hist.last[1].tree_before, hist.last[1].leaf)) = 3
    /\ hist.last[1].applied # fracInt(0)
    /\ Len(mcts.nodes[mcts.root].children) >= 2

\* C29 (expansion gating): a playout of either engine gives children to no
\* node but the leaf its descent reached, and every node it creates is a child
\* of that leaf; it does so only if gameEnd() of the leaf's position reports
\* not ended and the leaf had at least expand_bound visits before the
\* playout's back-propagation; otherwise the tree has the nodes it had.
C29_ExpansionGating ==
    hist.last # << >> =>
        LET r == hist.last[1]
            before == r.tree_before
            created == (DOMAIN mcts.nodes) \ (DOMAIN before)
            grown == { x \in DOMAIN before : mcts.nodes[x].children # before[x].children }
            gate == /\ ~ gameEnd(r.leaf_state)[1]
                    /\ before[r.leaf].vis_times >= mcts.expand_bound
        IN  /\ is_leaf(before[r.leaf])
            /\ grown \subseteq { r.leaf }
            /\ \A x \in created : mcts.nodes[x].parent = Some(r.leaf)
            /\ created = { mcts.nodes[r.leaf].children[i][2] :
                             i \in 1..Len(mcts.nodes[r.leaf].children) }
            /\ (grown # {} \/ created # {}) => gate
            /\ ~ gate => DOMAIN mcts.nodes = DOMAIN before

\* C29 witness: a playout expanded a leaf that had been visited as often as
\* the engine's expand bound of 2 asks for, on a position that had not ended.
C29_Witness ==
    /\ hist.last # << >>
    /\ mcts.expand_bound = 2
    /\ (DOMAIN mcts.nodes) \ (DOMAIN hist.last[1].tree_before) # {}
    /\ hist.last[1].tree_before[hist.last[1].leaf].vis_times = 2
    /\ ~ gameEnd(hist.last[1].leaf_state)[1]

\* C30 (the rollout's value and its negation): every rollout from the leaf
\* position of a playout of MCTS ends on a position that gameEnd() reports as
\* ended and returns 1 if the winner reported there is the player to move at
\* the leaf, -1 if it is the other player, 0 if there is none; the playout
\* backs the negation of its rollout's value up into the leaf, whose mean so
\* counts a win of the player who moved into the leaf as 1.
C30_RolloutValue ==
    (hist.last # << >> /\ mcts.kind = "MCTS") =>
        LET r == hist.last[1]
            to_move == r.leaf_state.current_player
            rollouts == evaluateRollout(r.leaf_state, kRolloutLimit)
            N == r.tree_before[r.leaf].vis_times
        IN  /\ \A o \in rollouts :
                LET ge == gameEnd(o.state)
                IN  /\ ge[1]
                    /\ o.ret = (IF ge[2] = None THEN 0
                                ELSE IF ge[2] = Some(to_move) THEN 1
                                ELSE 0 - 1)
            /\ \E o \in rollouts :
                /\ r.scalar = fracInt(o.ret)
                /\ r.applied = fracInt(0 - o.ret)
            /\ mcts.nodes[r.leaf].Q_value
                 = meanWith(r.tree_before[r.leaf].Q_value, N, r.applied)
            /\ r.applied = fracInt(1) =>
                 \E o \in rollouts : gameEnd(o.state)[2] = Some(1 - to_move)

\* C30 witness: a rollout that had moves to play was won by the player who
\* moved into the leaf, and 1 was backed up into the leaf.
C30_Witness ==
    /\ hist.last # << >>
    /\ mcts.kind = "MCTS"
    /\ ~ gameEnd(hist.last[1].leaf_state)[1]
    /\ hist.last[1].leaf # mcts.root
    /\ hist.last[1].scalar = fracInt(0 - 1)
    /\ hist.last[1].applied = fracInt(1)
    /\ mcts.nodes[hist.last[1].leaf].Q_value = fracInt(1)

\* ---- rollouts alone: _evaluateRollout(state, limit) called on the board
\* itself, with small limits, from positions of legal play.
MaxLimit == 2

RolloutBoards == StartBoards \cup { newBoard(2, 2, 2) }

InitRollout ==
    /\ board \in RolloutBoards
    /\ op = "init"
    /\ arg = << >>
    /\ ret = None
    /\ raised = ""
    /\ mcts = None
    /\ search = None
    /\ hist = None
    /\ thePlayer = None

\* _evaluateRollout(board, limit): the board is played on in place.  ret is
\* the value returned, with whether every play of the rollout returned True
\* (kept for the properties).
EvaluateRollout ==
    \E limit \in 0..MaxLimit :
        \E o \in evaluateRollout(board, limit) :
            Call("_evaluateRollout", << limit >>,
                 [ board |-> o.state,
                   ret |-> IF o.raised = "" THEN Some(<< o.ret, o.legal >>) ELSE None,
                   raised |-> o.raised ])

NextRollout ==
    \/ PlayLegal
    \/ EvaluateRollout

SpecRollout == InitRollout /\ [][NextRollout]_vars

\* C31 (rollout termination and cap, as claimed): a rollout makes at most
\* min(limit, number of available moves at the leaf) plays, each on the
\* position left by the one before and none from a position that gameEnd()
\* reports as ended, it stops on the first ended position or at the cap, it
\* does not raise, and it returns 0 when the cap is reached before the game
\* has ended.
C31_RolloutTermination ==
    [][ op' = "_evaluateRollout" =>
        LET limit == arg'[1]
            plays == Len(board'.moved) - Len(board.moved)
        IN  /\ raised' = ""
            /\ ret'[1][2]
            /\ plays >= 0
            /\ plays <= Min(limit, Len(board.availables))
            /\ SubSeq(board'.moved, 1, Len(board.moved)) = board.moved
            /\ \A k \in 1..plays : ~ gameEnd(undoTimes(board', k))[1]
            /\ gameEnd(board')[1] \/ plays = limit
            /\ (plays = limit /\ (plays = 0 \/ ~ gameEnd(undoTimes(board', 1))[1]))
                  => ret'[1][1] = 0 ]_vars

\* C32 (selection rule and tie-break): on every node with children of every
\* tree an engine holds (each tree is looked at in the states of the search,
\* tree advance, reset or construction that produced it), select returns an
\* (action, child) item of the node whose score
\* Q + weight_c * P * sqrt(parent visits) / (1 + visits) no other child's
\* score exceeds and which every child inserted before it falls short of;
\* when no child has been visited and all have the same prior it is the item
\* inserted first; and the descent of every playout went, at each node with
\* children, to the child select returns.
C32_SelectRule ==
    /\ ( search.name # "" \/ op \in { "init", "updateWithMove", "reset" } ) =>
        \A x \in DOMAIN mcts.nodes :
          ~ is_leaf(mcts.nodes[x]) =>
            LET items == mcts.nodes[x].children
                item == select(mcts.nodes, x, mcts.weight_c)
                score == [ i \in 1..Len(items) |-> evaluate(mcts.nodes, items[i][2], mcts.weight_c) ]
                fresh == \A i \in 1..Len(items) :
                            /\ mcts.nodes[items[i][2]].vis_times = 0
                            /\ mcts.nodes[items[i][2]].Q_value = fracInt(0)
                            /\ mcts.nodes[items[i][2]].P = mcts.nodes[items[1][2]].P
            IN  /\ \E k \in 1..Len(items) :
                    /\ items[k] = item
                    /\ \A j \in 1..Len(items) : ~ surdLess(score[k], score[j])
                    /\ \A j \in 1..(k - 1) : surdLess(score[j], score[k])
                /\ fresh => item = items[1]
    /\ hist.last # << >> =>
        LET r == hist.last[1]
        IN  \A i \in 1..(Len(r.path) - 1) :
                /\ ~ is_leaf(r.tree_before[r.path[i]])
                /\ r.path[i + 1] = select(r.tree_before, r.path[i], mcts.weight_c)[2]

\* C32 witness: a playout's descent left the root for a child other than the
\* first inserted one, which had been visited, while two unvisited children of
\* equal prior tied for the highest score.
C32_Witness ==
    /\ hist.last # << >>
    /\ mcts.kind = "MCTS"
    /\ LET r == hist.last[1]
           items == r.tree_before[r.path[1]].children
       IN  /\ Len(r.path) >= 2
           /\ Len(items) >= 3
           /\ r.tree_before[items[1][2]].vis_times = 1
           /\ r.path[2] = items[2][2]
           /\ r.tree_before[items[2][2]].vis_times = 0
           /\ r.tree_before[items[3][2]].vis_times = 0

\* ---------------------------------------------------------------------------
\* Tree nodes on their own: expand and backPropagation called on the nodes of
\* a tree grown from a single root (MCTSTreeNode(None, 1.0)).
\* ---------------------------------------------------------------------------

MaxDepth == 2
MaxVisits == 1
MaxAction == 1
MaxPriors == 2
MaxNodes == 4

NodeActions == 0..MaxAction

NodePriors == { frac(1, 2), frac(1, 3) }

\* the lists of (action, prior) pairs handed to expand
PriorLists ==
    UNION { [ 1..n -> { << a, p >> : a \in NodeActions, p \in NodePriors } ] : n \in 0..MaxPriors }

InitNode ==
    /\ board = None
    /\ op = "init"
    /\ arg = << >>
    /\ ret = None
    /\ raised = ""
    /\ mcts = [ nodes |-> (kRootId :> MCTSTreeNode(None, fracInt(1))) ]
    /\ search = None
    /\ hist = None
    /\ thePlayer = None

Expand ==
    \E id \in DOMAIN mcts.nodes, action_priors \in PriorLists :
        /\ Len(id) < MaxDepth
        /\ mcts' = [ nodes |-> expand(mcts.nodes, id, action_priors) ]
        /\ Cardinality(DOMAIN mcts'.nodes) <= MaxNodes
        /\ op' = "expand"
        /\ arg' = << id, action_priors >>
        /\ UNCHANGED << board, ret, raised, search, hist, thePlayer >>

BackPropagation ==
    \E id \in DOMAIN mcts.nodes, v \in { 0 - 1, 0, 1 } :
        /\ mcts.nodes[kRootId].vis_times < MaxVisits
        /\ mcts' = [ nodes |-> backPropagation(mcts.nodes, id, fracInt(v)) ]
        /\ op' = "backPropagation"
        /\ arg' = << id, v >>
        /\ UNCHANGED << board, ret, raised, search, hist, thePlayer >>

NextNode == Expand \/ BackPropagation

SpecNode == InitNode /\ [][NextNode]_vars

\* the first prior listed for an action
firstPrior(action_priors, action) ==
    action_priors[CHOOSE i \in 1..Len(action_priors) :
                    /\ action_priors[i][1] = action
                    /\ \A j \in 1..(i - 1) : action_priors[j][1] # action][2]

\* C33 (expand is idempotent on existing children): a call expand(priors) on
\* a node leaves every node of the tree that existed before as it was (same
\* parent, visit count, Q, prior and children), except that the child list of
\* the expanded node keeps its old items in place and gains, after them, one
\* item per listed action that was not a child; each of these new children has
\* the expanded node as parent, visit count 0, Q 0, no children and the prior
\* listed for it; no other node appears; and expanding again with the same
\* priors changes nothing.
C33_ExpandIdempotent ==
    [][ op' = "expand" =>
          LET id == arg'[1]
              action_priors == arg'[2]
              old == mcts.nodes
              new == mcts'.nodes
              listed == { action_priors[i][1] : i \in 1..Len(action_priors) }
              fresh == listed \ childKeys(old[id])
          IN  /\ DOMAIN new = (DOMAIN old) \cup { Append(id, a) : a \in fresh }
              /\ \A x \in (DOMAIN old) \ { id } : new[x] = old[x]
              /\ new[id].parent = old[id].parent
              /\ new[id].vis_times = old[id].vis_times
              /\ new[id].Q_value = old[id].Q_value
              /\ new[id].P = old[id].P
              /\ SubSeq(new[id].children, 1, Len(old[id].children)) = old[id].children
              /\ Len(new[id].children) = Len(old[id].children) + Cardinality(fresh)
              /\ childKeys(new[id]) = childKeys(old[id]) \cup fresh
              /\ \A a \in fresh :
                    /\ childAt(new[id], a) = Append(id, a)
                    /\ new[Append(id, a)] = MCTSTreeNode(Some(id), firstPrior(action_priors, a))
              /\ expand(new, id, action_priors) = new
      ]_vars

\* C33 witness: expand was called on a node that had a visited child with
\* children of its own, with a list naming that child under another prior and
\* an action that was no child yet.
C33_Witness ==
    /\ op = "expand"
    /\ arg[1] = kRootId
    /\ Len(arg[2]) = 2
    /\ arg[2][1][1] = 0
    /\ arg[2][2][1] = 1
    /\ Len(mcts.nodes[kRootId].children) = 2
    /\ mcts.nodes[kRootId].children[1][1] = 0
    /\ mcts.nodes[<< 0 >>].vis_times > 0
    /\ ~ is_leaf(mcts.nodes[<< 0 >>])
    /\ mcts.nodes[<< 0 >>].P # arg[2][1][2]
    /\ mcts.nodes[<< 1 >>].vis_times = 0

\* C34 (tree well-formedness): in every state of an engine the root has
\* parent None; the nodes the engine can reach by any link are exactly the
\* root and its descendants by child links; every node but the root has a
\* parent among them that holds it in its children under the action that led
\* to it, and every child item leads to a node whose parent is the holder; the
\* parent links from the leaf of the last playout end at the root, and that
\* playout changed the statistics of no node off that chain.
C34_WellFormed ==
    LET nodes == mcts.nodes
    IN  /\ mcts.root \in DOMAIN nodes
        /\ nodes[mcts.root].parent = None
        /\ DOMAIN nodes = subtree(nodes, mcts.root)
        /\ \A x \in (DOMAIN nodes) \ { mcts.root } :
            /\ nodes[x].parent # None
            /\ nodes[x].parent[1] \in DOMAIN nodes
            /\ \E i \in 1..Len(nodes[nodes[x].parent[1]].children) :
                nodes[nodes[x].parent[1]].children[i] = << x[Len(x)], x >>
        /\ \A x \in DOMAIN nodes : \A i \in 1..Len(nodes[x].children) :
            /\ nodes[x].children[i][2] \in DOMAIN nodes
            /\ nodes[nodes[x].children[i][2]].parent = Some(x)
        /\ hist.last # << >> =>
            LET r == hist.last[1]
                chain == upPath(nodes, r.leaf)
                on == { chain[i] : i \in 1..Len(chain) }
            IN  /\ chain[Len(chain)] = mcts.root
                /\ \A x \in (DOMAIN r.tree_before) \ on :
                    /\ x \in DOMAIN nodes
                    /\ nodes[x].vis_times = r.tree_before[x].vis_times
                    /\ nodes[x].Q_value = r.tree_before[x].Q_value

\* C34 witness: after a tree advance that dropped the old root and its other
\* children, a playout went below the new root and backed its value up to it.
C34_Witness ==
    /\ hist.last # << >>
    /\ mcts.root # kRootId
    /\ kRootId \notin DOMAIN mcts.nodes
    /\ Len(hist.last[1].path) >= 2
    /\ mcts.nodes[mcts.root].vis_times >= 2

\* C35 (the guided player advances its tree): when getAction of a
\* DNNMCTSPlayer that is not in self-play mode returns move m after its
\* search, the engine's root is the node that was the child of the searched
\* root under m, with that child's visit count, Q, prior and subtree as the
\* search left them.
C35_GuidedTreeAdvance ==
    [][ ( /\ search.name = "getAction"
          /\ search' = Idle
          /\ raised' = ""
          /\ thePlayer[1].kind = "DNNMCTSPlayer"
          /\ ~ thePlayer[1].self_play )
        => /\ ret'[1] \in childKeys(mcts.nodes[mcts.root])
           /\ LET child == childAt(mcts.nodes[mcts.root], ret'[1])
                  before == subtree(mcts.nodes, child)
              IN  /\ mcts'.root = child
                  /\ DOMAIN mcts'.nodes = before
                  /\ \A x \in before :
                        /\ mcts'.nodes[x].children = mcts.nodes[x].children
                        /\ mcts'.nodes[x].vis_times = mcts.nodes[x].vis_times
                        /\ mcts'.nodes[x].Q_value = mcts.nodes[x].Q_value
                        /\ mcts'.nodes[x].P = mcts.nodes[x].P
      ]_vars

\* C36 (think budget): when think(board, decay_level) has returned, the root's
\* visit count has grown by exactly compute_budget // decay_level, the
\* caller's board is as it was, and for the pure engine the call returned a
\* key of root.children whose child has the largest visit count among the
\* root's children.
C36_ThinkBudget ==
    ( /\ op = "think"
      /\ search = Idle )
    => /\ rootVisits(mcts) = hist.vis_before + (mcts.compute_budget \div arg[1])
       /\ board = hist.board_before
       /\ mcts.kind = "MCTS" =>
            /\ raised = ""
            /\ ret # None
            /\ ret[1] \in childKeys(mcts.nodes[mcts.root])
            /\ \A i \in 1..Len(mcts.nodes[mcts.root].children) :
                 mcts.nodes[mcts.nodes[mcts.root].children[i][2]].vis_times
                     <= mcts.nodes[childAt(mcts.nodes[mcts.root], ret[1])].vis_times

\* ---------------------------------------------------------------------------
\* A game played with a PureMCTSPlayer: the player is asked on its own turns
\* only, the move it returns is played, and the other side answers with any
\* available move, until the game has ended.
\* ---------------------------------------------------------------------------

MaxGameBudget == 10

GameBudgets == { 2, MaxGameBudget }

GameBoards ==
    { playAll(newBoard(3, 3, 3), Opening), newBoard(2, 2, 2),
      playAll(newBoard(3, 3, 3), << 0, 1, 2, 3, 7 >>),
      playAll(newBoard(3, 3, 3), << 4, 0, 2, 6 >>) }

InitGamePlayer ==
    /\ board \in GameBoards
    /\ op = "init"
    /\ arg = << >>
    /\ ret = None
    /\ raised = ""
    /\ \E c \in Players, n \in GameBudgets :
        LET p == PureMCTSPlayer(c, kDefaultWeightC, n)
        IN  /\ thePlayer = Some(p.self)
            /\ mcts = p.search_tree
    /\ search = Idle
    /\ hist = [ passes |-> noPasses(mcts.nodes).passes,
                totals |-> noPasses(mcts.nodes).totals,
                playouts |-> 0, last |-> << >>, dropped |-> 0,
                board_before |-> board, vis_before |-> 0 ]

\* PureMCTSPlayer.getAction on the player's turn, up to the first playout
AskPlayer ==
    /\ search = Idle
    /\ op \in { "init", "opponent" }
    /\ ~ gameEnd(board)[1]
    /\ board.current_player = thePlayer[1].color
    /\ LET r == getActionEnter(thePlayer[1], mcts, board)
       IN  /\ op' = "getAction"
           /\ arg' = << >>
           /\ raised' = r.raised
           /\ mcts' = r.mcts
           /\ ret' = r.ret
           /\ search' = IF r.done THEN Idle
                        ELSE [ name |-> "getAction", left |-> mcts.compute_budget ]
           /\ hist' = [ advanced(hist, mcts, r.mcts) EXCEPT
                          !.board_before = board,
                          !.vis_before = rootVisits(r.mcts),
                          !.last = << >>, !.dropped = 0 ]
    /\ UNCHANGED << board, thePlayer >>

\* the move getAction returned is played
PlayReturned ==
    /\ search = Idle
    /\ op = "getAction"
    /\ raised = ""
    /\ ret # None
    /\ LET r == play(board, ret[1])
       IN  /\ board' = r.board
           /\ op' = "play"
           /\ arg' = ret
           /\ ret' = r.ret
           /\ raised' = r.raised
    /\ hist' = settled(hist, board')
    /\ UNCHANGED << mcts, search, thePlayer >>

\* the other side plays an available move
OpponentPlay ==
    /\ search = Idle
    /\ op \in { "init", "play" }
    /\ ~ gameEnd(board)[1]
    /\ board.current_player # thePlayer[1].color
    /\ \E m \in Range(board.availables) :
        LET r == play(board, m)
        IN  /\ board' = r.board
            /\ op' = "opponent"
            /\ arg' = Some(m)
            /\ ret' = r.ret
            /\ raised' = r.raised
    /\ hist' = settled(hist, board')
    /\ UNCHANGED << mcts, search, thePlayer >>

NextGamePlayer == AskPlayer \/ Playout \/ ReturnAction \/ PlayReturned \/ OpponentPlay

SpecGamePlayer == InitGamePlayer /\ [][NextGamePlayer]_vars

\* the moves that lead from the root to a node
fromRoot(root, id) == SubSeq(id, Len(root) + 1, Len(id))

\* C37 (tree/board alignment under the PureMCTSPlayer protocol): while
\* getAction searches, every node with children has as child keys exactly
\* the available moves of the position reached from the caller's board by
\* the moves that lead from the root to the node; every move of the last
\* playout's descent was available on the clone when it was played; and the
\* move getAction returns is an available move of the board.
C37_TreeBoardAlignment ==
    /\ search.name = "getAction" =>
        /\ \A x \in DOMAIN mcts.nodes :
             ~ is_leaf(mcts.nodes[x]) =>
                 childKeys(mcts.nodes[x])
                     = Range(playAll(board, fromRoot(mcts.root, x)).availables)
        /\ hist.last # << >> =>
             LET leaf == hist.last[1].leaf
                 moves == fromRoot(mcts.root, leaf)
             IN  \A i \in 1..Len(moves) :
                     moves[i] \in Range(playAll(board, SubSeq(moves, 1, i - 1)).availables)
    /\ ( op = "getAction" /\ search = Idle /\ raised = "" ) =>
        /\ ret # None
        /\ ret[1] \in Range(board.availables)

\* C37 witness: during a search that began on a root kept from the player's
\* previous turn (the child under its own move and then the child under the
\* opponent's answer), a playout has descended from that root, which has
\* children, to one of them.
C37_Witness ==
    /\ search.name = "getAction"
    /\ mcts.root # kRootId
    /\ Len(mcts.root) = 2
    /\ ~ is_leaf(mcts.nodes[mcts.root])
    /\ hist.last # << >>
    /\ Len(hist.last[1].path) >= 2

\* ---------------------------------------------------------------------------
\* An engine kept in step with its board: searches run on the board, and
\* every stone played on the board is followed by updateWithMove of that
\* move (as PureMCTSPlayer.getAction and the self-play loop do).
\* ---------------------------------------------------------------------------

MaxStepBudget == 3
MaxStepPlayouts == 6
MaxStepBound == 2

StepBoards == { playAll(newBoard(3, 3, 3), Opening), newBoard(2, 2, 2), newBoard(1, 3, 1) }

StepEngines ==
    { newMCTS(kDefaultWeightC, b, x) : b \in 1..MaxStepBudget, x \in 0..MaxStepBound }
    \cup { newMCTSWithDNN(kDefaultWeightC, b, x) : b \in 1..MaxStepBudget, x \in 0..MaxStepBound }

InitStep ==
    /\ board \in StepBoards
    /\ op = "init"
    /\ arg = << >>
    /\ ret = None
    /\ raised = ""
    /\ mcts \in StepEngines
    /\ search = Idle
    /\ thePlayer = None
    /\ hist = [ passes |-> noPasses(mcts.nodes).passes,
                totals |-> noPasses(mcts.nodes).totals,
                playouts |-> 0, last |-> << >>, dropped |-> 0,
                board_before |-> board, vis_before |-> 0 ]

\* think(board, 1) up to its first playout
StartThink ==
    /\ search = Idle
    /\ hist.playouts + mcts.compute_budget <= MaxStepPlayouts
    /\ Begin("think", << 1 >>)
    /\ ret' = None
    /\ search' = [ name |-> "think", left |-> mcts.compute_budget ]
    /\ UNCHANGED << board, mcts, thePlayer >>

\* board.play(m) and then updateWithMove(m)
PlayAndStep ==
    /\ search = Idle
    /\ ~ gameEnd(board)[1]
    /\ \E m \in Range(board.availables) :
        /\ board' = play(board, m).board
        /\ mcts' = updateWithMove(mcts, Some(m))
        /\ op' = "updateWithMove"
        /\ arg' = Some(m)
        /\ ret' = None
        /\ raised' = ""
        /\ hist' = [ kept(hist, mcts'.nodes, m \in childKeys(mcts.nodes[mcts.root]))
                       EXCEPT !.board_before = board' ]
    /\ UNCHANGED << search, thePlayer >>

NextStep == StartThink \/ Playout \/ Return \/ PlayAndStep \/ Reset

SpecStep == InitStep /\ [][NextStep]_vars

childVisits(nodes, x) ==
    sumSeq([ i \in 1..Len(nodes[x].children) |-> nodes[nodes[x].children[i][2]].vis_times ])

\* C38 (visit accounting of expanded nodes): in either engine kept in step
\* with its board, every node with children has a visit count of
\* expand_bound + 1 + the sum of its children's visit counts, and every node
\* without children whose position (the board after the moves from the root
\* to the node) has not ended has a visit count of at most expand_bound.
C38_VisitAccounting ==
    \A x \in DOMAIN mcts.nodes :
        IF is_leaf(mcts.nodes[x])
        THEN ~ gameEnd(playAll(board, fromRoot(mcts.root, x)))[1]
                => mcts.nodes[x].vis_times <= mcts.expand_bound
        ELSE mcts.nodes[x].vis_times
                = mcts.expand_bound + 1 + childVisits(mcts.nodes, x)

\* C38 witness: with expand bound 1 the root in use was reached by a tree
\* advance that kept its visit count, was expanded afterwards, and has two
\* children visited once each that are not expanded, one of them on a
\* position that has not ended.
C38_Witness ==
    /\ mcts.expand_bound = 1
    /\ mcts.root # kRootId
    /\ mcts.nodes[mcts.root].vis_times = 4
    /\ \E i, j \in 1..Len(mcts.nodes[mcts.root].children) :
        LET a == mcts.nodes[mcts.root].children[i][2]
            b == mcts.nodes[mcts.root].children[j][2]
        IN  /\ a # b
            /\ is_leaf(mcts.nodes[a])
            /\ is_leaf(mcts.nodes[b])
            /\ mcts.nodes[a].vis_times = 1
            /\ mcts.nodes[b].vis_times = 1
            /\ ~ gameEnd(playAll(board, fromRoot(mcts.root, b)))[1]

\* ---------------------------------------------------------------------------
\* A board with the starting player of its last initBoard remembered.
\* ---------------------------------------------------------------------------

\* Board(...) calls initBoard(), which starts with Black
InitParity ==
    /\ \E c \in Configs : board = newBoard(c[1], c[2], c[3])
    /\ op = "init"
    /\ arg = << >>
    /\ ret = None
    /\ raised = ""
    /\ mcts = None
    /\ search = None
    /\ hist = [ start |-> kPlayerBlack ]
    /\ thePlayer = None

InitBoardFrom ==
    \E sp \in { None, Some(kPlayerWhite), Some(kPlayerBlack) } :
        LET r == initBoard(board, sp)
        IN  /\ board' = r.board
            /\ op' = "initBoard"
            /\ arg' = sp
            /\ ret' = r.ret
            /\ raised' = r.raised
            /\ hist' = IF r.raised # "" THEN hist
                       ELSE [ start |-> IF sp = None THEN kPlayerBlack ELSE sp[1] ]
            /\ UNCHANGED << mcts, search, thePlayer >>

NextParity == Play \/ Undo \/ InitBoardFrom \/ CurrentState

SpecParity == InitParity /\ [][NextParity]_vars

stonesOf(b, color) == Cardinality({ m \in DOMAIN b.states : b.states[m] = color })

\* C39 (stone colour parity): after initBoard(start) and any play and undo
\* calls with moves of the board, the stones are exactly the cells of moved,
\* the stone at the i-th cell of moved (counted from 0) is the starting
\* player's iff i is even, the two players' stone counts differ by at most 1,
\* and when moved is not empty the stone at last_move is the last of moved
\* and belongs to the opponent of current_player, so that every cell marked
\* in plane 2 of currentState is marked in plane 1.
C39_ColourParity ==
    /\ DOMAIN board.states = Range(board.moved)
    /\ \A i \in 1..Len(board.moved) :
        board.states[board.moved[i]] = IF i % 2 = 1 THEN hist.start ELSE 1 - hist.start
    /\ stonesOf(board, kPlayerBlack) - stonesOf(board, kPlayerWhite) \in { 0 - 1, 0, 1 }
    /\ board.moved # << >> =>
        /\ board.last_move = Some(board.moved[Len(board.moved)])
        /\ board.states[board.last_move[1]] = 1 - board.current_player
    /\ LET s == currentState(board)
       IN  \A r \in 0..(board.height - 1), c \in 0..(board.width - 1) :
              s[2][r][c] <= s[1][r][c]

\* C39 witness: on a board started by White, after an undo gave a cell back
\* (the free cells are no longer in ascending order) a play has put the second
\* stone, a black one, on the board.
C39_Witness ==
    /\ hist.start = kPlayerWhite
    /\ op = "play"
    /\ ret = TRUE
    /\ Len(board.moved) = 2
    /\ Len(board.availables) = 2
    /\ board.availables[1] > board.availables[2]
    /\ board.states[board.moved[1]] = kPlayerWhite
    /\ board.states[board.moved[2]] = kPlayerBlack
    /\ board.current_player = kPlayerWhite

\* ---------------------------------------------------------------------------
\* GameServer._startNormalGame with two players whose getAction returns any
\* cell of the board.  `search` holds the position in the loop and the move
\* in hand.
\* ---------------------------------------------------------------------------

\* self.board.initBoard(self.player1.color), up to the loop
InitServer ==
    /\ \E c \in Configs, color \in Players :
        board = initBoard(newBoard(c[1], c[2], c[3]), Some(color)).board
    /\ op = "init"
    /\ arg = << >>
    /\ ret = None
    /\ raised = ""
    /\ mcts = None
    /\ search = [ pc |-> "getAction", move |-> None ]
    /\ hist = None
    /\ thePlayer = None

\* move = current_player.getAction(self.board)
ServerGetAction ==
    /\ search.pc = "getAction"
    /\ \E move \in Cells(board) :
        search' = [ pc |-> "play", move |-> Some(move) ]
    /\ op' = "getAction"
    /\ arg' = << >>
    /\ ret' = search'.move
    /\ raised' = ""
    /\ UNCHANGED << board, mcts, hist, thePlayer >>

\* while not self.board.play(move): print("Invalid movement."), and after an
\* accepted play the test of gameEnd()
ServerPlay ==
    /\ search.pc = "play"
    /\ LET r == play(board, search.move[1])
           ge == gameEnd(r.board)
       IN  /\ board' = r.board
           /\ op' = "play"
           /\ arg' = search.move
           /\ raised' = r.raised
           /\ IF ~ r.ret
              THEN /\ ret' = None
                   /\ search' = search
              ELSE IF ge[1]
              THEN /\ ret' = ge[2]
                   /\ search' = [ pc |-> "return", move |-> None ]
              ELSE /\ ret' = None
                   /\ search' = [ pc |-> "getAction", move |-> None ]
    /\ UNCHANGED << mcts, hist, thePlayer >>

NextServer == ServerGetAction \/ ServerPlay

SpecServer == InitServer /\ [][NextServer]_vars

\* the loop keeps running: each of its two steps is taken when it can change
\* the state
SpecServerFair == SpecServer /\ WF_vars(ServerGetAction) /\ WF_vars(ServerPlay)

\* C40 (a normal game terminates): with players whose getAction returns any
\* cell of the board, occupied or not, _startNormalGame eventually returns.
C40_NormalGameTerminates == <>(search.pc = "return")

====
